---- MODULE Spec2Model ----
(***************************************************************************)
(* LumiTrack backend: the stored tables (users, auth tokens, password       *)
(* resets, energy distributors, properties, areas, devices, consumption    *)
(* records) and the service handlers that read and write them.  A handler  *)
(* runs as one step in the sequential specifications; the create handlers  *)
(* of the consumption ledger are also given as the sequence of their       *)
(* awaited data-store calls for the interleaved specification.             *)
(***************************************************************************)
EXTENDS Integers, FiniteSets, Sequences, TLC

(* ------------------------------------------------------------------ *)
(* Bounds of the model: how many rows of each table are ever created.  *)
(* Ids are issued in increasing order and never reused (UUIDs).        *)
(* ------------------------------------------------------------------ *)
MaxUsers == 2
MaxDistributors == 2
MaxProperties == 2
MaxAreas == 2
MaxDevices == 2
MaxRecords == 2
MaxRequests == 2

UserIds == 1..MaxUsers
DistributorIds == 1..MaxDistributors
PropertyIds == 1..MaxProperties
AreaIds == 1..MaxAreas
DeviceIds == 1..MaxDevices
RecordIds == 1..MaxRecords
RequestIds == 1..MaxRequests

\* A nullable column that holds no value.
NULL == 0

\* enum ConsumptionPeriod
ConsumptionPeriod == {"DAILY", "MONTHLY", "ANNUAL"}

VARIABLES
    users,          \* set of stored user ids
    distributors,   \* id -> [userId, cnpj, kwhPrice, taxRate, publicLightingFee]
    properties,     \* id -> [userId, distributorId, name]
    areas,          \* id -> [propertyId, name]
    devices,        \* id -> [areaId, name]
    consumptions,   \* id -> [propertyId, areaId, deviceId, period, referenceDate,
                    \*        kwhConsumed, costBrl, notes]
    nextId,         \* per table, the last id issued
    inflight,       \* request -> a create request suspended between its data-store calls
    resp,           \* the outcome of the handler that ran last, until it is delivered
    authTokens,     \* id -> [userId, channel, expiresAt, revokedAt]
    passwordResets, \* id -> [userId, expiresAt, usedAt]
    jwts,           \* token id -> [userId, exp]: the signed tokens handed to clients
    now,            \* the clock
    env,            \* the configuration the process was started with
    outbox,         \* the calls of sendPasswordResetEmail made so far, in order
    accounts        \* user id -> [email, password, userType, cpf, cnpj]

tables == <<users, distributors, properties, areas, devices, consumptions>>
db == <<users, distributors, properties, areas, devices, consumptions, nextId>>
authVars == <<authTokens, passwordResets, jwts, now, env, outbox, accounts>>
vars == <<users, distributors, properties, areas, devices, consumptions, nextId, inflight, resp, authVars>>

(* ------------------------------------------------------------------ *)
(* Table helpers.                                                      *)
(* ------------------------------------------------------------------ *)
EmptyTable == [k \in {} |-> NULL]

Insert(t, k, row) == [x \in DOMAIN t \cup {k} |-> IF x = k THEN row ELSE t[x]]

DeleteRows(t, ks) == [x \in DOMAIN t \ ks |-> t[x]]

Idle == [op |-> "idle", userId |-> NULL, propertyId |-> NULL, areaId |-> NULL,
         deviceId |-> NULL, id |-> NULL, outcome |-> "none", ret |-> {}]

Reply(op, u, p, a, d, id, outcome, ret) ==
    [op |-> op, userId |-> u, propertyId |-> p, areaId |-> a, deviceId |-> d,
     id |-> id, outcome |-> outcome, ret |-> ret]

\* The first check of a chain that fails decides the outcome; "ok" when none fails.
FirstFailure(checks) ==
    IF \A i \in DOMAIN checks : checks[i] = "ok" THEN "ok"
    ELSE checks[CHOOSE i \in DOMAIN checks :
                    /\ checks[i] # "ok"
                    /\ \A j \in DOMAIN checks : j < i => checks[j] = "ok"]

\* A handler that threw, or that only read: its outcome is reported and nothing
\* is written.
NoWrite(r) ==
    /\ resp' = r
    /\ UNCHANGED <<users, distributors, properties, areas, devices, consumptions,
                   nextId, inflight, authVars>>

(* ------------------------------------------------------------------ *)
(* ON DELETE CASCADE foreign keys of the schema.                       *)
(* ------------------------------------------------------------------ *)
\* The areas of every property.
AreasOfProperties_All(ps) == DOMAIN areas

AreasOfProperties(ps) == {a \in DOMAIN areas : areas[a].propertyId \in ps}

DevicesOfAreas(as) == {d \in DOMAIN devices : devices[d].areaId \in as}

\* The records that reference the deleted properties directly, and no others.
RecordsOfTargets_PropertyOnly(ps, as, ds) ==
    {r \in DOMAIN consumptions : consumptions[r].propertyId \in ps}

RecordsOfTargets(ps, as, ds) ==
    {r \in DOMAIN consumptions :
        \/ consumptions[r].propertyId \in ps
        \/ consumptions[r].areaId \in as
        \/ consumptions[r].deviceId \in ds}

\* DELETE of the device rows ds: consumption_records_deviceId_fkey cascades.
CascadeDevices(ds) ==
    /\ devices' = DeleteRows(devices, ds)
    /\ consumptions' = DeleteRows(consumptions, RecordsOfTargets({}, {}, ds))

\* DELETE of the area rows as: devices_areaId_fkey and
\* consumption_records_areaId_fkey cascade.
CascadeAreas(as) ==
    LET ds == DevicesOfAreas(as) IN
    /\ areas' = DeleteRows(areas, as)
    /\ devices' = DeleteRows(devices, ds)
    /\ consumptions' = DeleteRows(consumptions, RecordsOfTargets({}, as, ds))

\* DELETE of the property rows ps: areas_propertyId_fkey and
\* consumption_records_propertyId_fkey cascade.
CascadeProperties(ps) ==
    LET as == AreasOfProperties(ps)
        ds == DevicesOfAreas(as) IN
    /\ properties' = DeleteRows(properties, ps)
    /\ areas' = DeleteRows(areas, as)
    /\ devices' = DeleteRows(devices, ds)
    /\ consumptions' = DeleteRows(consumptions, RecordsOfTargets(ps, as, ds))

\* JWT_WEB_EXPIRES_IN as a number and its unit; the default of the env schema.
DefaultEnv == [JWT_WEB_EXPIRES_IN |-> [value |-> 15, unit |-> "m"]]

Init ==
    /\ users = {}
    /\ distributors = EmptyTable
    /\ properties = EmptyTable
    /\ areas = EmptyTable
    /\ devices = EmptyTable
    /\ consumptions = EmptyTable
    /\ nextId = [user |-> 0, distributor |-> 0, property |-> 0, area |-> 0,
                 device |-> 0, record |-> 0, token |-> 0, reset |-> 0]
    /\ inflight = [q \in RequestIds |-> [pc |-> "idle"]]
    /\ resp = Idle
    /\ authTokens = EmptyTable
    /\ passwordResets = EmptyTable
    /\ jwts = EmptyTable
    /\ now = 0
    /\ env = DefaultEnv
    /\ outbox = <<>>
    /\ accounts = EmptyTable

\* The response of the last handler is delivered; the next request may run.
Deliver ==
    /\ resp # Idle
    /\ resp' = Idle
    /\ UNCHANGED <<users, distributors, properties, areas, devices, consumptions,
                   nextId, inflight, authVars>>

\* An optional input field that is not in the payload, or a nullable numeric
\* column that holds no value (data.taxRate ?? null).
Undefined == -1

\* An optional string field that is not in the payload (z.string().min(1) admits
\* no empty string, so "" stands for the missing field).
NoName == ""

(* ------------------------------------------------------------------ *)
(* Tariff price.  kwhPrice is a DECIMAL(10,6) column: the data store   *)
(* rounds the price it is given to 6 fractional digits.  Prices in a   *)
(* payload are counted in units of 1e-7 BRL, stored prices and costs   *)
(* in units of 1e-6 BRL, energy in whole kWh.                          *)
(* ------------------------------------------------------------------ *)
toDecimal6(price) == (price + 5) \div 10

(* ------------------------------------------------------------------ *)
(* UserService                                                         *)
(* ------------------------------------------------------------------ *)
\* bcrypt.hash(password, BCRYPT_ROUNDS)
bcryptHash(password) == <<"bcrypt", password>>

findByEmail(email) == {u \in DOMAIN accounts : accounts[u].email = email}

findByCpf(cpf) == {u \in DOMAIN accounts : accounts[u].cpf = cpf}

findByCnpj(cnpj) == {u \in DOMAIN accounts : accounts[u].cnpj = cnpj}

\* The payload of the n-th signup of a run that does not look at identities: an
\* individual whose e-mail address and CPF nobody else has.
Signup(n) == [email |-> n, password |-> 1, userType |-> "INDIVIDUAL", cpf |-> n, cnpj |-> NULL]

\* UserService.createUser: data is the parsed payload; cpf is NULL for a company
\* and cnpj for an individual.
createUser(wf, data) ==
    /\ resp = Idle
    /\ LET out == FirstFailure(<<
                IF wf THEN "ok" ELSE "Validation",
                IF findByEmail(data.email) # {} THEN "Conflict" ELSE "ok",
                IF data.userType = "INDIVIDUAL" /\ data.cpf # NULL /\ findByCpf(data.cpf) # {}
                THEN "Conflict" ELSE "ok",
                IF data.userType = "COMPANY" /\ data.cnpj # NULL /\ findByCnpj(data.cnpj) # {}
                THEN "Conflict" ELSE "ok">>) IN
       IF out # "ok"
       THEN NoWrite(Reply("createUser", NULL, NULL, NULL, NULL, NULL, out, {}))
       ELSE /\ nextId.user < MaxUsers
            /\ LET id == nextId.user + 1 IN
               /\ users' = users \cup {id}
               /\ accounts' = Insert(accounts, id,
                      [email |-> data.email, password |-> bcryptHash(data.password),
                       userType |-> data.userType, cpf |-> data.cpf, cnpj |-> data.cnpj])
               /\ nextId' = [nextId EXCEPT !.user = id]
               /\ resp' = Reply("createUser", NULL, NULL, NULL, NULL, id, "ok",
                                {<<"user", id>>})
            /\ UNCHANGED <<distributors, properties, areas, devices, consumptions,
                           inflight, authTokens, passwordResets, jwts, now, env, outbox>>

\* The rows of table t that reference user id.
RowsOfUser_None(t, id) == {}

RowsOfUser(t, id) == {k \in DOMAIN t : t[k].userId = id}

\* DELETE FROM users WHERE id = ...: the referential actions of the statement run
\* first (the ON DELETE CASCADE keys of auth_tokens, password_resets,
\* energy_distributors and properties, and below properties those of areas,
\* devices and consumption_records); properties_distributorId_fkey, ON DELETE
\* RESTRICT, is checked after them, on the properties that are left: the
\* statement is refused when a property of another user references a distributor
\* of the deleted user.
UserDeleteRestricted(id) ==
    \E p \in DOMAIN properties :
        /\ properties[p].userId # id
        /\ properties[p].distributorId \in RowsOfUser(distributors, id)

deleteUser(id) ==
    /\ resp = Idle
    /\ IF id \notin users
       THEN NoWrite(Reply("deleteUser", NULL, NULL, NULL, NULL, id, "NotFound", {}))
       ELSE IF UserDeleteRestricted(id)
       THEN NoWrite(Reply("deleteUser", NULL, NULL, NULL, NULL, id, "InternalError", {}))
       ELSE /\ users' = users \ {id}
            /\ accounts' = DeleteRows(accounts, {id})
            /\ authTokens' = DeleteRows(authTokens, RowsOfUser(authTokens, id))
            /\ passwordResets' = DeleteRows(passwordResets, RowsOfUser(passwordResets, id))
            /\ distributors' = DeleteRows(distributors, RowsOfUser(distributors, id))
            /\ CascadeProperties(RowsOfUser(properties, id))
            /\ resp' = Reply("deleteUser", NULL, NULL, NULL, NULL, id, "ok", {})
            /\ UNCHANGED <<nextId, inflight, jwts, now, env, outbox>>

(* ------------------------------------------------------------------ *)
(* AuthService and the authentication middleware.  A signed token is   *)
(* named by the id of its auth_tokens row; what the token itself       *)
(* carries (the payload, the iat claim and, for the WEB channel, the    *)
(* exp claim), which makes up its string, is kept in jwts, whatever    *)
(* happens to the row.                                                 *)
(* ------------------------------------------------------------------ *)
MaxTokens == 2
MaxResets == 1
MaxTime == 5

TokenIds == 1..MaxTokens

\* The clock counts quarters of an hour; durations are counted in seconds.
TickSeconds == 900

ToTicks(seconds) == seconds \div TickSeconds

\* The multipliers of parseJwtExpiry, in seconds.
multipliers == [s |-> 1, m |-> 60, h |-> 3600, d |-> 86400]

\* parseJwtExpiry: the lifetime written to auth_tokens.expiresAt; a value of
\* another form than digits followed by s, m, h or d counts as 15 minutes.
parseJwtExpiry(expiry) ==
    IF expiry.unit \in DOMAIN multipliers
    THEN expiry.value * multipliers[expiry.unit]
    ELSE 15 * 60

\* jwt.sign(..., { expiresIn }): the lifetime of the exp claim; jsonwebtoken reads
\* the string with the ms package, which also knows weeks and years.
jwtExpiresIn(expiry) ==
    expiry.value * [s |-> 1, m |-> 60, h |-> 3600, d |-> 86400, w |-> 604800,
                    y |-> 31557600][expiry.unit]

\* PASSWORD_RESET_EXPIRES_MS (one hour), in ticks of the clock.
PasswordResetExpires == ToTicks(60 * 60)

TokenChannel == {"WEB", "MOBILE"}

Tick ==
    /\ now < MaxTime
    /\ now' = now + 1
    /\ UNCHANGED <<db, inflight, resp, authTokens, passwordResets, jwts, env, outbox, accounts>>

\* The seconds of one tick of the clock at which a token can be signed.
Seconds == 0..1

\* The second of the current tick the clock has reached: no token is signed
\* earlier than one signed before it.
currentSecond ==
    LET signed == {jwts[t].iat[2] : t \in {x \in DOMAIN jwts : jwts[x].iat[1] = now}} IN
    IF signed = {} THEN 0 ELSE CHOOSE s \in signed : \A o \in signed : o <= s

\* jwt.sign(jwtPayload, env.JWT_SECRET, options): the token string is a
\* function of the payload, of iat (the second of signing) and, for the WEB
\* channel, of the exp claim; iat is the tick of the clock and the second in it.
jwtSign(userId, iat, exp) ==
    [userId |-> userId,
     email |-> IF userId \in DOMAIN accounts THEN accounts[userId].email ELSE NULL,
     iat |-> iat, exp |-> exp]

\* auth_tokens_token_key: no stored row carries the token string.
auth_tokens_token_key(token) ==
    \A t \in DOMAIN authTokens : jwts[t] # token

\* AuthService.login: email is the address of user userId (stored or not),
\* passwordOk whether bcrypt.compare accepts the password, second the second
\* of the current tick at which the token is signed.
login(userId, wf, passwordOk, channel, second) ==
    /\ resp = Idle
    /\ second >= currentSecond
    /\ LET out == FirstFailure(<<IF wf THEN "ok" ELSE "Validation",
                                 IF userId \in users /\ passwordOk THEN "ok"
                                 ELSE "Unauthorized">>) IN
       IF out # "ok"
       THEN NoWrite(Reply("login", userId, NULL, NULL, NULL, NULL, out, {}))
       ELSE LET exp == IF channel = "WEB"
                       THEN now + ToTicks(jwtExpiresIn(env.JWT_WEB_EXPIRES_IN))
                       ELSE Undefined
                expiresAt == IF channel = "WEB"
                             THEN now + ToTicks(parseJwtExpiry(env.JWT_WEB_EXPIRES_IN))
                             ELSE Undefined
                token == jwtSign(userId, <<now, second>>, exp) IN
            IF ~auth_tokens_token_key(token)
            THEN NoWrite(Reply("login", userId, NULL, NULL, NULL, NULL, "InternalError", {}))
            ELSE /\ nextId.token < MaxTokens
                 /\ LET id == nextId.token + 1 IN
                    /\ authTokens' = Insert(authTokens, id,
                           [userId |-> userId, channel |-> channel, expiresAt |-> expiresAt,
                            revokedAt |-> Undefined])
                    /\ jwts' = Insert(jwts, id, token)
                    /\ nextId' = [nextId EXCEPT !.token = id]
                    /\ resp' = Reply("login", userId, NULL, NULL, NULL, id, "ok",
                                     {<<"token", id>>})
                 /\ UNCHANGED <<tables, inflight, passwordResets, now, env, outbox, accounts>>

\* A notification function that sends every message twice.
sendPasswordResetEmail_Twice(email, resetToken) ==
    outbox \o <<[email |-> email, resetToken |-> resetToken],
                [email |-> email, resetToken |-> resetToken]>>

\* The injected notification function: the outbox after one call of it.
sendPasswordResetEmail(email, resetToken) ==
    Append(outbox, [email |-> email, resetToken |-> resetToken])

\* AuthService.forgotPassword: answers alike whether the address is known or not.
forgotPassword(userId, wf) ==
    /\ resp = Idle
    /\ IF ~wf
       THEN NoWrite(Reply("forgotPassword", userId, NULL, NULL, NULL, NULL, "Validation", {}))
       ELSE IF userId \notin users
       THEN NoWrite(Reply("forgotPassword", userId, NULL, NULL, NULL, NULL, "ok", {}))
       ELSE /\ nextId.reset < MaxResets
            /\ LET id == nextId.reset + 1 IN
               /\ passwordResets' = Insert(passwordResets, id,
                      [userId |-> userId, expiresAt |-> now + PasswordResetExpires,
                       usedAt |-> Undefined])
               /\ nextId' = [nextId EXCEPT !.reset = id]
               /\ outbox' = sendPasswordResetEmail(userId, id)
            /\ resp' = Reply("forgotPassword", userId, NULL, NULL, NULL, NULL, "ok", {})
            /\ UNCHANGED <<tables, inflight, authTokens, jwts, now, env, accounts>>

\* jwt.verify(token, env.JWT_SECRET): the token was signed by login and its exp
\* claim, when it has one, is not reached.
jwtVerify(token) ==
    /\ token \in DOMAIN jwts
    /\ jwts[token].exp # Undefined => now < jwts[token].exp

\* A middleware that leaves expiry to the exp claim of the token.
authenticateOutcome_NoExpiry(token) ==
    IF ~jwtVerify(token) THEN "Unauthorized"
    ELSE IF token \notin DOMAIN authTokens THEN "Unauthorized"
    ELSE IF authTokens[token].revokedAt # Undefined THEN "Unauthorized"
    ELSE "ok"

\* createAuthenticateMiddleware: the outcome for a request that carries token.
authenticateOutcome(token) ==
    IF ~jwtVerify(token) THEN "Unauthorized"
    ELSE IF token \notin DOMAIN authTokens THEN "Unauthorized"
    ELSE IF authTokens[token].revokedAt # Undefined THEN "Unauthorized"
    ELSE IF authTokens[token].expiresAt # Undefined /\ authTokens[token].expiresAt < now
    THEN "Unauthorized"
    ELSE "ok"

authenticate(token) ==
    /\ resp = Idle
    /\ NoWrite(Reply("authenticate",
                     IF token \in DOMAIN jwts THEN jwts[token].userId ELSE NULL,
                     NULL, NULL, NULL, token, authenticateOutcome(token), {}))

(* ------------------------------------------------------------------ *)
(* DistributorService                                                  *)
(* ------------------------------------------------------------------ *)
findByUserAndCnpj(userId, cnpj) ==
    {d \in DOMAIN distributors :
        distributors[d].userId = userId /\ distributors[d].cnpj = cnpj}

hasProperties(id) == \E p \in DOMAIN properties : properties[p].distributorId = id

Distributor_create(userId, wf, cnpj, kwhPrice, taxRate, publicLightingFee) ==
    /\ resp = Idle
    /\ LET out == IF ~wf THEN "Validation"
                  ELSE IF findByUserAndCnpj(userId, cnpj) # {} THEN "Conflict"
                  ELSE IF userId \notin users THEN "InternalError"
                  ELSE "ok" IN
       IF out # "ok"
       THEN NoWrite(Reply("Distributor.create", userId, NULL, NULL, NULL, NULL, out, {}))
       ELSE /\ nextId.distributor < MaxDistributors
            /\ LET id == nextId.distributor + 1 IN
               /\ distributors' = Insert(distributors, id,
                      [userId |-> userId, cnpj |-> cnpj, kwhPrice |-> toDecimal6(kwhPrice),
                       taxRate |-> taxRate, publicLightingFee |-> publicLightingFee])
               /\ nextId' = [nextId EXCEPT !.distributor = id]
               /\ resp' = Reply("Distributor.create", userId, NULL, NULL, NULL, id,
                                "ok", {<<"distributor", id>>})
            /\ UNCHANGED <<users, properties, areas, devices, consumptions, inflight, authVars>>

Distributor_check(id, requestingUserId) ==
    IF id \notin DOMAIN distributors THEN "NotFound"
    ELSE IF distributors[id].userId # requestingUserId THEN "Forbidden"
    ELSE "ok"

Distributor_findById(id, requestingUserId) ==
    /\ resp = Idle
    /\ LET out == Distributor_check(id, requestingUserId) IN
       NoWrite(Reply("Distributor.findById", requestingUserId, NULL, NULL, NULL, id, out,
                   IF out = "ok" THEN {<<"distributor", id>>} ELSE {}))

Distributor_findAll(userId) ==
    /\ resp = Idle
    /\ NoWrite(Reply("Distributor.findAll", userId, NULL, NULL, NULL, NULL, "ok",
                   {<<"distributor", d>> : d \in
                        {x \in DOMAIN distributors : distributors[x].userId = userId}}))

\* DistributorRepository.update: the fields of the payload that are not undefined.
Distributor_patch(row, kwhPrice, taxRate, publicLightingFee) ==
    [row EXCEPT
        !.kwhPrice = IF kwhPrice # Undefined THEN toDecimal6(kwhPrice) ELSE @,
        !.taxRate = IF taxRate # Undefined THEN taxRate ELSE @,
        !.publicLightingFee = IF publicLightingFee # Undefined THEN publicLightingFee ELSE @]

Distributor_update(id, requestingUserId, wf, kwhPrice, taxRate, publicLightingFee) ==
    /\ resp = Idle
    /\ LET out == FirstFailure(<<Distributor_check(id, requestingUserId),
                                 IF wf THEN "ok" ELSE "Validation">>) IN
       IF out # "ok"
       THEN NoWrite(Reply("Distributor.update", requestingUserId, NULL, NULL, NULL, id, out, {}))
       ELSE /\ distributors' = [distributors EXCEPT
                    ![id] = Distributor_patch(@, kwhPrice, taxRate, publicLightingFee)]
            /\ resp' = Reply("Distributor.update", requestingUserId, NULL, NULL, NULL, id,
                             "ok", {<<"distributor", id>>})
            /\ UNCHANGED <<users, properties, areas, devices, consumptions, nextId,
                           inflight, authVars>>

Distributor_delete(id, requestingUserId) ==
    /\ resp = Idle
    /\ LET out == FirstFailure(<<Distributor_check(id, requestingUserId),
                                 IF hasProperties(id) THEN "Conflict" ELSE "ok">>) IN
       IF out # "ok"
       THEN NoWrite(Reply("Distributor.delete", requestingUserId, NULL, NULL, NULL, id, out, {}))
       ELSE /\ distributors' = DeleteRows(distributors, {id})
            /\ resp' = Reply("Distributor.delete", requestingUserId, NULL, NULL, NULL, id,
                             "ok", {})
            /\ UNCHANGED <<users, properties, areas, devices, consumptions, nextId,
                           inflight, authVars>>

(* ------------------------------------------------------------------ *)
(* PropertyService                                                     *)
(* ------------------------------------------------------------------ *)
\* A check of existence only.
validateDistributorOwnership_ExistsOnly(distributorId, userId) ==
    IF distributorId \notin DOMAIN distributors THEN "NotFound" ELSE "ok"

validateDistributorOwnership(distributorId, userId) ==
    IF distributorId \notin DOMAIN distributors THEN "NotFound"
    ELSE IF distributors[distributorId].userId # userId THEN "Forbidden"
    ELSE "ok"

Property_check(id, requestingUserId) ==
    IF id \notin DOMAIN properties THEN "NotFound"
    ELSE IF properties[id].userId # requestingUserId THEN "Forbidden"
    ELSE "ok"

Property_create(userId, wf, distributorId, name) ==
    /\ resp = Idle
    /\ LET out == FirstFailure(<<IF wf THEN "ok" ELSE "Validation",
                                 validateDistributorOwnership(distributorId, userId)>>) IN
       IF out # "ok"
       THEN NoWrite(Reply("Property.create", userId, NULL, NULL, NULL, NULL, out, {}))
       ELSE /\ nextId.property < MaxProperties
            /\ LET id == nextId.property + 1 IN
               /\ properties' = Insert(properties, id,
                      [userId |-> userId, distributorId |-> distributorId, name |-> name])
               /\ nextId' = [nextId EXCEPT !.property = id]
               /\ resp' = Reply("Property.create", userId, id, NULL, NULL, id, "ok",
                                {<<"property", id>>})
            /\ UNCHANGED <<users, distributors, areas, devices, consumptions, inflight, authVars>>

Property_findById(id, requestingUserId) ==
    /\ resp = Idle
    /\ LET out == Property_check(id, requestingUserId) IN
       NoWrite(Reply("Property.findById", requestingUserId, id, NULL, NULL, id, out,
                   IF out = "ok" THEN {<<"property", id>>} ELSE {}))

Property_findAll(userId) ==
    /\ resp = Idle
    /\ NoWrite(Reply("Property.findAll", userId, NULL, NULL, NULL, NULL, "ok",
                   {<<"property", p>> : p \in
                        {x \in DOMAIN properties : properties[x].userId = userId}}))

\* PropertyRepository.update: the fields of the payload that are not undefined.
Property_patch(row, distributorId, name) ==
    [row EXCEPT
        !.distributorId = IF distributorId # NULL THEN distributorId ELSE @,
        !.name = IF name # NoName THEN name ELSE @]

Property_update(id, requestingUserId, wf, distributorId, name) ==
    /\ resp = Idle
    /\ LET out == FirstFailure(<<Property_check(id, requestingUserId),
                                 IF wf THEN "ok" ELSE "Validation",
                                 IF distributorId # NULL
                                 THEN validateDistributorOwnership(distributorId,
                                                                   requestingUserId)
                                 ELSE "ok">>) IN
       IF out # "ok"
       THEN NoWrite(Reply("Property.update", requestingUserId, id, NULL, NULL, id, out, {}))
       ELSE /\ properties' = [properties EXCEPT
                    ![id] = Property_patch(@, distributorId, name)]
            /\ resp' = Reply("Property.update", requestingUserId, id, NULL, NULL, id,
                             "ok", {<<"property", id>>})
            /\ UNCHANGED <<users, distributors, areas, devices, consumptions, nextId,
                           inflight, authVars>>

Property_delete(id, requestingUserId) ==
    /\ resp = Idle
    /\ LET out == Property_check(id, requestingUserId) IN
       IF out # "ok"
       THEN NoWrite(Reply("Property.delete", requestingUserId, id, NULL, NULL, id, out, {}))
       ELSE /\ CascadeProperties({id})
            /\ resp' = Reply("Property.delete", requestingUserId, id, NULL, NULL, id,
                             "ok", {})
            /\ UNCHANGED <<users, distributors, nextId, inflight, authVars>>

(* ------------------------------------------------------------------ *)
(* AreaService                                                         *)
(* ------------------------------------------------------------------ *)
validatePropertyOwnership(propertyId, userId) ==
    IF propertyId \notin DOMAIN properties THEN "NotFound"
    ELSE IF properties[propertyId].userId # userId THEN "Forbidden"
    ELSE "ok"

\* AreaService.findById, after validatePropertyOwnership.
Area_lookup(id, propertyId) ==
    IF id \notin DOMAIN areas THEN "NotFound"
    ELSE IF areas[id].propertyId # propertyId THEN "NotFound"
    ELSE "ok"

Area_check(id, propertyId, userId) ==
    FirstFailure(<<validatePropertyOwnership(propertyId, userId),
                   Area_lookup(id, propertyId)>>)

Area_create(propertyId, userId, wf, name) ==
    /\ resp = Idle
    /\ LET out == FirstFailure(<<validatePropertyOwnership(propertyId, userId),
                                 IF wf THEN "ok" ELSE "Validation">>) IN
       IF out # "ok"
       THEN NoWrite(Reply("Area.create", userId, propertyId, NULL, NULL, NULL, out, {}))
       ELSE /\ nextId.area < MaxAreas
            /\ LET id == nextId.area + 1 IN
               /\ areas' = Insert(areas, id, [propertyId |-> propertyId, name |-> name])
               /\ nextId' = [nextId EXCEPT !.area = id]
               /\ resp' = Reply("Area.create", userId, propertyId, id, NULL, id, "ok",
                                {<<"area", id>>})
            /\ UNCHANGED <<users, distributors, properties, devices, consumptions,
                           inflight, authVars>>

Area_findById(id, propertyId, userId) ==
    /\ resp = Idle
    /\ LET out == Area_check(id, propertyId, userId) IN
       NoWrite(Reply("Area.findById", userId, propertyId, id, NULL, id, out,
                     IF out = "ok" THEN {<<"area", id>>} ELSE {}))

Area_findAll(propertyId, userId) ==
    /\ resp = Idle
    /\ LET out == validatePropertyOwnership(propertyId, userId) IN
       NoWrite(Reply("Area.findAll", userId, propertyId, NULL, NULL, NULL, out,
                     IF out = "ok"
                     THEN {<<"area", a>> : a \in AreasOfProperties({propertyId})}
                     ELSE {}))

Area_update(id, propertyId, userId, wf, name) ==
    /\ resp = Idle
    /\ LET out == FirstFailure(<<Area_check(id, propertyId, userId),
                                 IF wf THEN "ok" ELSE "Validation">>) IN
       IF out # "ok"
       THEN NoWrite(Reply("Area.update", userId, propertyId, id, NULL, id, out, {}))
       ELSE /\ areas' = [areas EXCEPT ![id].name = IF name # NoName THEN name ELSE @]
            /\ resp' = Reply("Area.update", userId, propertyId, id, NULL, id, "ok",
                             {<<"area", id>>})
            /\ UNCHANGED <<users, distributors, properties, devices, consumptions,
                           nextId, inflight, authVars>>

Area_delete(id, propertyId, userId) ==
    /\ resp = Idle
    /\ LET out == Area_check(id, propertyId, userId) IN
       IF out # "ok"
       THEN NoWrite(Reply("Area.delete", userId, propertyId, id, NULL, id, out, {}))
       ELSE /\ CascadeAreas({id})
            /\ resp' = Reply("Area.delete", userId, propertyId, id, NULL, id, "ok", {})
            /\ UNCHANGED <<users, distributors, properties, nextId, inflight, authVars>>

(* ------------------------------------------------------------------ *)
(* DeviceService                                                       *)
(* ------------------------------------------------------------------ *)
\* validateAreaOwnership looking the area up before the property.
validateAreaOwnership_AreaFirst(areaId, propertyId, userId) ==
    IF areaId \notin DOMAIN areas THEN "NotFound"
    ELSE IF areas[areaId].propertyId # propertyId THEN "Forbidden"
    ELSE IF propertyId \notin DOMAIN properties THEN "NotFound"
    ELSE IF properties[propertyId].userId # userId THEN "Forbidden"
    ELSE "ok"

validateAreaOwnership(areaId, propertyId, userId) ==
    IF propertyId \notin DOMAIN properties THEN "NotFound"
    ELSE IF properties[propertyId].userId # userId THEN "Forbidden"
    ELSE IF areaId \notin DOMAIN areas THEN "NotFound"
    ELSE IF areas[areaId].propertyId # propertyId THEN "Forbidden"
    ELSE "ok"

\* DeviceService.findById without the comparison of device.areaId with the
\* area of the path.
Device_lookup_AnyArea(id, areaId) ==
    IF id \notin DOMAIN devices THEN "NotFound"
    ELSE "ok"

\* DeviceService.findById, after validateAreaOwnership.
Device_lookup(id, areaId) ==
    IF id \notin DOMAIN devices THEN "NotFound"
    ELSE IF devices[id].areaId # areaId THEN "Forbidden"
    ELSE "ok"

Device_check(id, areaId, propertyId, userId) ==
    FirstFailure(<<validateAreaOwnership(areaId, propertyId, userId),
                   Device_lookup(id, areaId)>>)

Device_create(areaId, propertyId, userId, wf, name) ==
    /\ resp = Idle
    /\ LET out == FirstFailure(<<IF wf THEN "ok" ELSE "Validation",
                                 validateAreaOwnership(areaId, propertyId, userId)>>) IN
       IF out # "ok"
       THEN NoWrite(Reply("Device.create", userId, propertyId, areaId, NULL, NULL, out, {}))
       ELSE /\ nextId.device < MaxDevices
            /\ LET id == nextId.device + 1 IN
               /\ devices' = Insert(devices, id, [areaId |-> areaId, name |-> name])
               /\ nextId' = [nextId EXCEPT !.device = id]
               /\ resp' = Reply("Device.create", userId, propertyId, areaId, id, id, "ok",
                                {<<"device", id>>})
            /\ UNCHANGED <<users, distributors, properties, areas, consumptions,
                           inflight, authVars>>

Device_findById(id, areaId, propertyId, userId) ==
    /\ resp = Idle
    /\ LET out == Device_check(id, areaId, propertyId, userId) IN
       NoWrite(Reply("Device.findById", userId, propertyId, areaId, id, id, out,
                     IF out = "ok" THEN {<<"device", id>>} ELSE {}))

Device_findAll(areaId, propertyId, userId) ==
    /\ resp = Idle
    /\ LET out == validateAreaOwnership(areaId, propertyId, userId) IN
       NoWrite(Reply("Device.findAll", userId, propertyId, areaId, NULL, NULL, out,
                     IF out = "ok"
                     THEN {<<"device", d>> : d \in DevicesOfAreas({areaId})}
                     ELSE {}))

Device_update(id, areaId, propertyId, userId, wf, name) ==
    /\ resp = Idle
    /\ LET out == FirstFailure(<<Device_check(id, areaId, propertyId, userId),
                                 IF wf THEN "ok" ELSE "Validation">>) IN
       IF out # "ok"
       THEN NoWrite(Reply("Device.update", userId, propertyId, areaId, id, id, out, {}))
       ELSE /\ devices' = [devices EXCEPT ![id].name = IF name # NoName THEN name ELSE @]
            /\ resp' = Reply("Device.update", userId, propertyId, areaId, id, id, "ok",
                             {<<"device", id>>})
            /\ UNCHANGED <<users, distributors, properties, areas, consumptions,
                           nextId, inflight, authVars>>

Device_delete(id, areaId, propertyId, userId) ==
    /\ resp = Idle
    /\ LET out == Device_check(id, areaId, propertyId, userId) IN
       IF out # "ok"
       THEN NoWrite(Reply("Device.delete", userId, propertyId, areaId, id, id, out, {}))
       ELSE /\ CascadeDevices({id})
            /\ resp' = Reply("Device.delete", userId, propertyId, areaId, id, id, "ok", {})
            /\ UNCHANGED <<users, distributors, properties, areas, nextId, inflight, authVars>>

(* ------------------------------------------------------------------ *)
(* ConsumptionService                                                  *)
(* ------------------------------------------------------------------ *)
validatePropertyAndGetKwhPrice(propertyId, userId) ==
    IF propertyId \notin DOMAIN properties THEN "NotFound"
    ELSE IF properties[propertyId].userId # userId THEN "Forbidden"
    ELSE IF properties[propertyId].distributorId \notin DOMAIN distributors THEN "NotFound"
    ELSE "ok"

\* The value validatePropertyAndGetKwhPrice returns when it does not throw.
kwhPriceOf(propertyId) == distributors[properties[propertyId].distributorId].kwhPrice

\* validateAreaBelongsToProperty answering as AreaService.findById does.
validateAreaBelongsToProperty_NotFound(areaId, propertyId) ==
    IF areaId \notin DOMAIN areas THEN "NotFound"
    ELSE IF areas[areaId].propertyId # propertyId THEN "NotFound"
    ELSE "ok"

validateAreaBelongsToProperty(areaId, propertyId) ==
    IF areaId \notin DOMAIN areas THEN "NotFound"
    ELSE IF areas[areaId].propertyId # propertyId THEN "Forbidden"
    ELSE "ok"

validateDeviceBelongsToArea(deviceId, areaId) ==
    IF deviceId \notin DOMAIN devices THEN "NotFound"
    ELSE IF devices[deviceId].areaId # areaId THEN "Forbidden"
    ELSE "ok"

\* type ConsumptionTarget: the foreign key that the caller names; the other two
\* are not part of the object.
PropertyTarget(propertyId) == [propertyId |-> propertyId, areaId |-> NULL, deviceId |-> NULL]

AreaTarget(areaId) == [propertyId |-> NULL, areaId |-> areaId, deviceId |-> NULL]

\* A device target that also fills the area column with the device's area.
DeviceTarget_WithArea(deviceId) ==
    [propertyId |-> NULL,
     areaId |-> IF deviceId \in DOMAIN devices THEN devices[deviceId].areaId ELSE NULL,
     deviceId |-> deviceId]

DeviceTarget(deviceId) == [propertyId |-> NULL, areaId |-> NULL, deviceId |-> deviceId]

\* where: { ...target }: only the key the target holds constrains the rows.
MatchesTarget(row, target) ==
    /\ target.propertyId # NULL => row.propertyId = target.propertyId
    /\ target.areaId # NULL => row.areaId = target.areaId
    /\ target.deviceId # NULL => row.deviceId = target.deviceId

\* A lookup that takes any stored period kind of the target and date as a match.
findByTargetAndPeriod_AnyPeriod(target, period, referenceDate) ==
    {r \in DOMAIN consumptions :
        /\ MatchesTarget(consumptions[r], target)
        /\ consumptions[r].referenceDate = referenceDate}

findByTargetAndPeriod(target, period, referenceDate) ==
    {r \in DOMAIN consumptions :
        /\ MatchesTarget(consumptions[r], target)
        /\ consumptions[r].period = period
        /\ consumptions[r].referenceDate = referenceDate}

findAllByTarget(target, period) ==
    {r \in DOMAIN consumptions :
        /\ MatchesTarget(consumptions[r], target)
        /\ period # NoName => consumptions[r].period = period}

\* The sequences that hold every row of a set once.
Orderings(rows) ==
    {f \in [1..Cardinality(rows) -> rows] :
        \A i, j \in DOMAIN f : i # j => f[i] # f[j]}

\* orderBy: { referenceDate: "asc" }
orderBy_referenceDate_asc(rows) ==
    {f \in Orderings(rows) :
        \A i, j \in DOMAIN f :
            i < j => consumptions[f[i]].referenceDate <= consumptions[f[j]].referenceDate}

\* orderBy: { referenceDate: "desc" }: the orders in which findMany can hand out
\* the rows; rows of one referenceDate come in any order.
orderBy_referenceDate_desc(rows) ==
    {f \in Orderings(rows) :
        \A i, j \in DOMAIN f :
            i < j => consumptions[f[i]].referenceDate >= consumptions[f[j]].referenceDate}

\* A cost with the fixed fee of the distributor folded in.
costOf_WithFee(kwhConsumed, kwhPrice) == kwhConsumed * kwhPrice + 5

\* const costBrl = data.kwhConsumed * kwhPrice
costOf(kwhConsumed, kwhPrice) == kwhConsumed * kwhPrice

\* ConsumptionRepository.create: data: { ...target, period, ..., costBrl, notes }
NewRecord(target, period, referenceDate, kwhConsumed, costBrl, notes) ==
    [propertyId |-> target.propertyId, areaId |-> target.areaId,
     deviceId |-> target.deviceId, period |-> period, referenceDate |-> referenceDate,
     kwhConsumed |-> kwhConsumed, costBrl |-> costBrl, notes |-> notes]

\* The checks of createForProperty / createForArea / createForDevice in the order
\* the handler makes them, for the depth of the target.
CreateChecks(target, areaId, propertyId, userId, wf, period, referenceDate) ==
    FirstFailure(
        <<IF wf THEN "ok" ELSE "Validation",
          validatePropertyAndGetKwhPrice(propertyId, userId),
          IF target.propertyId = NULL
          THEN validateAreaBelongsToProperty(areaId, propertyId) ELSE "ok",
          IF target.deviceId # NULL
          THEN validateDeviceBelongsToArea(target.deviceId, areaId) ELSE "ok",
          IF findByTargetAndPeriod(target, period, referenceDate) # {}
          THEN "Conflict" ELSE "ok">>)

CreateRecord(op, target, areaId, propertyId, userId, wf, period, referenceDate, kwhConsumed, notes) ==
    /\ resp = Idle
    /\ LET out == CreateChecks(target, areaId, propertyId, userId, wf, period,
                               referenceDate) IN
       IF out # "ok"
       THEN NoWrite(Reply(op, userId, propertyId, areaId, target.deviceId, NULL, out, {}))
       ELSE /\ nextId.record < MaxRecords
            /\ LET id == nextId.record + 1 IN
               /\ consumptions' = Insert(consumptions, id,
                      NewRecord(target, period, referenceDate, kwhConsumed,
                                costOf(kwhConsumed, kwhPriceOf(propertyId)), notes))
               /\ nextId' = [nextId EXCEPT !.record = id]
               /\ resp' = Reply(op, userId, propertyId, areaId, target.deviceId, id, "ok",
                                {<<"record", id>>})
            /\ UNCHANGED <<users, distributors, properties, areas, devices, inflight, authVars>>

createForProperty(propertyId, userId, wf, period, referenceDate, kwhConsumed, notes) ==
    CreateRecord("createForProperty", PropertyTarget(propertyId), NULL, propertyId,
                 userId, wf, period, referenceDate, kwhConsumed, notes)

createForArea(areaId, propertyId, userId, wf, period, referenceDate, kwhConsumed, notes) ==
    CreateRecord("createForArea", AreaTarget(areaId), areaId, propertyId,
                 userId, wf, period, referenceDate, kwhConsumed, notes)

createForDevice(deviceId, areaId, propertyId, userId, wf, period, referenceDate, kwhConsumed, notes) ==
    CreateRecord("createForDevice", DeviceTarget(deviceId), areaId, propertyId,
                 userId, wf, period, referenceDate, kwhConsumed, notes)

\* The third component of a returned item is its position in the returned array.
ListRecords(op, target, areaId, propertyId, userId, period) ==
    /\ resp = Idle
    /\ LET out == FirstFailure(
                    <<validatePropertyAndGetKwhPrice(propertyId, userId),
                      IF target.propertyId = NULL
                      THEN validateAreaBelongsToProperty(areaId, propertyId) ELSE "ok",
                      IF target.deviceId # NULL
                      THEN validateDeviceBelongsToArea(target.deviceId, areaId)
                      ELSE "ok">>) IN
       IF out # "ok"
       THEN NoWrite(Reply(op, userId, propertyId, areaId, target.deviceId, NULL, out, {}))
       ELSE \E list \in orderBy_referenceDate_desc(findAllByTarget(target, period)) :
                NoWrite(Reply(op, userId, propertyId, areaId, target.deviceId, NULL, out,
                              {<<"record", list[i], i>> : i \in DOMAIN list}))

findAllForProperty(propertyId, userId, period) ==
    ListRecords("findAllForProperty", PropertyTarget(propertyId), NULL, propertyId,
                userId, period)

findAllForArea(areaId, propertyId, userId, period) ==
    ListRecords("findAllForArea", AreaTarget(areaId), areaId, propertyId, userId, period)

findAllForDevice(deviceId, areaId, propertyId, userId, period) ==
    ListRecords("findAllForDevice", DeviceTarget(deviceId), areaId, propertyId, userId,
                period)

\* ConsumptionService.findById: the property of the path is validated, then the
\* record is looked up by its id alone.
Consumption_check(id, propertyId, userId) ==
    FirstFailure(<<validatePropertyAndGetKwhPrice(propertyId, userId),
                   IF id \in DOMAIN consumptions THEN "ok" ELSE "NotFound">>)

Consumption_findById(id, propertyId, userId) ==
    /\ resp = Idle
    /\ LET out == Consumption_check(id, propertyId, userId) IN
       NoWrite(Reply("Consumption.findById", userId, propertyId, NULL, NULL, id, out,
                     IF out = "ok" THEN {<<"record", id>>} ELSE {}))

\* An update that writes every field it is handed, an absent cost as null.
Consumption_patch_Overwrite(row, kwhConsumed, notes, costBrl) ==
    [row EXCEPT
        !.kwhConsumed = IF kwhConsumed # Undefined THEN kwhConsumed ELSE @,
        !.notes = IF notes # NoName THEN notes ELSE @,
        !.costBrl = IF costBrl # Undefined THEN costBrl ELSE NULL]

\* ConsumptionRepository.update: the fields of the payload that are not undefined,
\* and costBrl when the service passes one.
Consumption_patch(row, kwhConsumed, notes, costBrl) ==
    [row EXCEPT
        !.kwhConsumed = IF kwhConsumed # Undefined THEN kwhConsumed ELSE @,
        !.notes = IF notes # NoName THEN notes ELSE @,
        !.costBrl = IF costBrl # Undefined THEN costBrl ELSE @]

\* let newCostBrl = undefined; if (parsed.data.kwhConsumed !== undefined) ...
newCostBrl(propertyId, kwhConsumed) ==
    IF kwhConsumed # Undefined
    THEN costOf(kwhConsumed, kwhPriceOf(propertyId))
    ELSE Undefined

\* An update that writes the record before it validates the body.
Consumption_update_WriteFirst(id, propertyId, userId, wf, kwhConsumed, notes) ==
    /\ resp = Idle
    /\ LET found == Consumption_check(id, propertyId, userId)
           out == FirstFailure(<<found, IF wf THEN "ok" ELSE "Validation">>) IN
       IF found # "ok"
       THEN NoWrite(Reply("Consumption.update", userId, propertyId, NULL, NULL, id, out, {}))
       ELSE /\ consumptions' = [consumptions EXCEPT
                    ![id] = Consumption_patch(@, kwhConsumed, notes,
                                              newCostBrl(propertyId, kwhConsumed))]
            /\ resp' = Reply("Consumption.update", userId, propertyId, NULL, NULL, id,
                             out, IF out = "ok" THEN {<<"record", id>>} ELSE {})
            /\ UNCHANGED <<users, distributors, properties, areas, devices, nextId,
                           inflight, authVars>>

Consumption_update(id, propertyId, userId, wf, kwhConsumed, notes) ==
    /\ resp = Idle
    /\ LET out == FirstFailure(<<Consumption_check(id, propertyId, userId),
                                 IF wf THEN "ok" ELSE "Validation">>) IN
       IF out # "ok"
       THEN NoWrite(Reply("Consumption.update", userId, propertyId, NULL, NULL, id, out, {}))
       ELSE /\ consumptions' = [consumptions EXCEPT
                    ![id] = Consumption_patch(@, kwhConsumed, notes,
                                              newCostBrl(propertyId, kwhConsumed))]
            /\ resp' = Reply("Consumption.update", userId, propertyId, NULL, NULL, id,
                             "ok", {<<"record", id>>})
            /\ UNCHANGED <<users, distributors, properties, areas, devices, nextId,
                           inflight, authVars>>

Consumption_delete(id, propertyId, userId) ==
    /\ resp = Idle
    /\ LET out == Consumption_check(id, propertyId, userId) IN
       IF out # "ok"
       THEN NoWrite(Reply("Consumption.delete", userId, propertyId, NULL, NULL, id, out, {}))
       ELSE /\ consumptions' = DeleteRows(consumptions, {id})
            /\ resp' = Reply("Consumption.delete", userId, propertyId, NULL, NULL, id,
                             "ok", {})
            /\ UNCHANGED <<users, distributors, properties, areas, devices, nextId,
                           inflight, authVars>>

(* ------------------------------------------------------------------ *)
(* Payload values.                                                     *)
(* ------------------------------------------------------------------ *)
Names == {"n1", "n2"}
Cnpjs == {"c1", "c2"}
PriceInputs == {20, 24, 30}
TaxRates == {Undefined, 1200}
Fees == {Undefined, 5}
Dates == {1, 2}
KwhValues == {1, 2}
Notes == {NoName, "note"}

(* ------------------------------------------------------------------ *)
(* SpecAccess: two users build their hierarchies (one distributor      *)
(* each) and every area, device and consumption handler is called      *)
(* with every combination of user and path ids, with well-formed       *)
(* payloads.                                                           *)
(* ------------------------------------------------------------------ *)
AccessMaxDevices == 1
AccessMaxRecords == 1

NextAccess ==
    \/ Deliver
    \/ createUser(TRUE, Signup(nextId.user + 1))
    \/ \E u \in UserIds : Distributor_create(u, TRUE, "c1", 20, Undefined, Undefined)
    \/ \E u \in UserIds, d \in DistributorIds : Property_create(u, TRUE, d, "n1")
    \/ \E u \in UserIds, p \in PropertyIds : Area_create(p, u, TRUE, "n1")
    \/ \E u \in UserIds, p \in PropertyIds, a \in AreaIds : Area_findById(a, p, u)
    \/ \E u \in UserIds, p \in PropertyIds : Area_findAll(p, u)
    \/ \E u \in UserIds, p \in PropertyIds, a \in AreaIds : Area_update(a, p, u, TRUE, "n2")
    \/ \E u \in UserIds, p \in PropertyIds, a \in AreaIds : Area_delete(a, p, u)
    \/ \E u \in UserIds, p \in PropertyIds, a \in AreaIds :
            nextId.device < AccessMaxDevices /\ Device_create(a, p, u, TRUE, "n1")
    \/ \E u \in UserIds, p \in PropertyIds, a \in AreaIds, d \in DeviceIds :
            Device_findById(d, a, p, u)
    \/ \E u \in UserIds, p \in PropertyIds, a \in AreaIds : Device_findAll(a, p, u)
    \/ \E u \in UserIds, p \in PropertyIds, a \in AreaIds, d \in DeviceIds :
            Device_update(d, a, p, u, TRUE, "n2")
    \/ \E u \in UserIds, p \in PropertyIds, a \in AreaIds, d \in DeviceIds :
            Device_delete(d, a, p, u)
    \/ \E u \in UserIds, p \in PropertyIds :
            nextId.record < AccessMaxRecords
            /\ createForProperty(p, u, TRUE, "DAILY", 1, 1, NoName)
    \/ \E u \in UserIds, p \in PropertyIds, a \in AreaIds :
            nextId.record < AccessMaxRecords
            /\ createForArea(a, p, u, TRUE, "DAILY", 1, 1, NoName)
    \/ \E u \in UserIds, p \in PropertyIds, a \in AreaIds, d \in DeviceIds :
            nextId.record < AccessMaxRecords
            /\ createForDevice(d, a, p, u, TRUE, "DAILY", 1, 1, NoName)
    \/ \E u \in UserIds, p \in PropertyIds : findAllForProperty(p, u, NoName)
    \/ \E u \in UserIds, p \in PropertyIds, a \in AreaIds : findAllForArea(a, p, u, NoName)
    \/ \E u \in UserIds, p \in PropertyIds, a \in AreaIds, d \in DeviceIds :
            findAllForDevice(d, a, p, u, NoName)
    \/ \E u \in UserIds, p \in PropertyIds, r \in RecordIds : Consumption_findById(r, p, u)
    \/ \E u \in UserIds, p \in PropertyIds, r \in RecordIds :
            Consumption_update(r, p, u, TRUE, 2, NoName)
    \/ \E u \in UserIds, p \in PropertyIds, r \in RecordIds : Consumption_delete(r, p, u)

SpecAccess == Init /\ [][NextAccess]_vars

(* ------------------------------------------------------------------ *)
(* Who owns a stored row: the user at the root of its chain.           *)
(* ------------------------------------------------------------------ *)
OwnerOfProperty(p) == properties[p].userId

OwnerOfArea(a) == OwnerOfProperty(areas[a].propertyId)

OwnerOfDevice(d) == OwnerOfArea(devices[d].areaId)

RootOfRecord(r) ==
    IF consumptions[r].propertyId # NULL THEN consumptions[r].propertyId
    ELSE IF consumptions[r].areaId # NULL THEN areas[consumptions[r].areaId].propertyId
    ELSE areas[devices[consumptions[r].deviceId].areaId].propertyId

OwnerOfRecord(r) == OwnerOfProperty(RootOfRecord(r))

OwnerOf(item) ==
    CASE item[1] = "user" -> item[2]
      [] item[1] = "distributor" -> distributors[item[2]].userId
      [] item[1] = "property" -> OwnerOfProperty(item[2])
      [] item[1] = "area" -> OwnerOfArea(item[2])
      [] item[1] = "device" -> OwnerOfDevice(item[2])
      [] item[1] = "record" -> OwnerOfRecord(item[2])

AreaByIdOps == {"Area.findById", "Area.update", "Area.delete"}
AreaOps == AreaByIdOps \cup {"Area.create", "Area.findAll"}
DeviceByIdOps == {"Device.findById", "Device.update", "Device.delete"}
DeviceOps == DeviceByIdOps \cup {"Device.create", "Device.findAll"}
ConsumptionAreaOps == {"createForArea", "findAllForArea"}
ConsumptionDeviceOps == {"createForDevice", "findAllForDevice"}
ConsumptionByIdOps == {"Consumption.findById", "Consumption.update", "Consumption.delete"}
ConsumptionOps ==
    {"createForProperty", "findAllForProperty"} \cup ConsumptionAreaOps
        \cup ConsumptionDeviceOps \cup ConsumptionByIdOps
DistributorByIdOps == {"Distributor.findById", "Distributor.update", "Distributor.delete"}
PropertyByIdOps == {"Property.findById", "Property.update", "Property.delete"}

\* The handlers whose path names an area, and those whose path names a device.
AreaInPath == AreaByIdOps \cup DeviceOps \cup ConsumptionAreaOps \cup ConsumptionDeviceOps
DeviceInPath == DeviceByIdOps \cup ConsumptionDeviceOps
PropertyInPath == AreaOps \cup DeviceOps \cup ConsumptionOps \cup PropertyByIdOps

\* A handler step: a request is taken up and its response r is produced.
Handled(ops) == resp = Idle /\ resp' # Idle /\ resp'.op \in ops

\* Response r names, in the stored state, a row that belongs to another user.
NamesForeign(r) ==
    \/ /\ r.op \in PropertyInPath
       /\ r.propertyId \in DOMAIN properties
       /\ OwnerOfProperty(r.propertyId) # r.userId
    \/ /\ r.op \in AreaInPath
       /\ r.areaId \in DOMAIN areas
       /\ OwnerOfArea(r.areaId) # r.userId
    \/ /\ r.op \in DeviceInPath
       /\ r.deviceId \in DOMAIN devices
       /\ OwnerOfDevice(r.deviceId) # r.userId
    \/ /\ r.op \in ConsumptionByIdOps
       /\ r.id \in DOMAIN consumptions
       /\ OwnerOfRecord(r.id) # r.userId
    \/ /\ r.op \in DistributorByIdOps
       /\ r.id \in DOMAIN distributors
       /\ distributors[r.id].userId # r.userId

\* No stored row of a user other than u is changed or removed by the step.
ForeignUnchanged(u) ==
    /\ \A d \in DOMAIN distributors : distributors[d].userId # u =>
            d \in DOMAIN distributors' /\ distributors'[d] = distributors[d]
    /\ \A p \in DOMAIN properties : OwnerOfProperty(p) # u =>
            p \in DOMAIN properties' /\ properties'[p] = properties[p]
    /\ \A a \in DOMAIN areas : OwnerOfArea(a) # u =>
            a \in DOMAIN areas' /\ areas'[a] = areas[a]
    /\ \A d \in DOMAIN devices : OwnerOfDevice(d) # u =>
            d \in DOMAIN devices' /\ devices'[d] = devices[d]
    /\ \A r \in DOMAIN consumptions : OwnerOfRecord(r) # u =>
            r \in DOMAIN consumptions' /\ consumptions'[r] = consumptions[r]

\* C1. Tenancy isolation: a handler of the distributor, property, area, device or
\* consumption service called by user B returns only rows that B owns, changes no
\* row of another user, and fails with Forbidden or NotFound whenever one of the
\* ids it is given names a row of another user.
C1_TenancyIsolation ==
    [][Handled(PropertyInPath \cup DistributorByIdOps) =>
         /\ \A item \in resp'.ret : OwnerOf(item)' = resp'.userId
         /\ ForeignUnchanged(resp'.userId)
         /\ NamesForeign(resp') => resp'.outcome \in {"Forbidden", "NotFound"}]_vars

(* ------------------------------------------------------------------ *)
(* The state of the path of response r.  A handler that fails writes   *)
(* nothing, and one that succeeds neither moves a row to another       *)
(* parent nor leaves a mismatched row behind, so the stored state      *)
(* after the handler decides these as the state before it did.         *)
(* ------------------------------------------------------------------ *)
PropertyOwned(r) ==
    /\ r.propertyId \in DOMAIN properties
    /\ properties[r.propertyId].userId = r.userId

PropertyForeign(r) ==
    /\ r.propertyId \in DOMAIN properties
    /\ properties[r.propertyId].userId # r.userId

AreaMismatch(r) ==
    /\ r.op \in AreaInPath
    /\ r.areaId \in DOMAIN areas
    /\ areas[r.areaId].propertyId # r.propertyId

AreaMatches(r) ==
    /\ r.op \in AreaInPath
    /\ r.areaId \in DOMAIN areas
    /\ areas[r.areaId].propertyId = r.propertyId

DeviceMismatch(r) ==
    /\ r.op \in DeviceInPath
    /\ r.deviceId \in DOMAIN devices
    /\ devices[r.deviceId].areaId # r.areaId

C3_TopDownChecks ==
    [][Handled(AreaOps \cup DeviceOps \cup ConsumptionOps) =>
         LET r == resp' IN
         /\ r.propertyId \notin DOMAIN properties => r.outcome = "NotFound"
         /\ PropertyForeign(r) => r.outcome = "Forbidden"
         /\ (PropertyOwned(r) /\ r.op \in AreaInPath /\ r.areaId \notin DOMAIN areas)
                => r.outcome = "NotFound"
         /\ (PropertyOwned(r) /\ AreaMismatch(r))
                => r.outcome = IF r.op \in AreaByIdOps THEN "NotFound" ELSE "Forbidden"
         /\ (PropertyOwned(r) /\ AreaMatches(r) /\ r.op \in DeviceInPath
                /\ r.deviceId \notin DOMAIN devices)
                => r.outcome = "NotFound"
         /\ (PropertyOwned(r) /\ AreaMatches(r) /\ DeviceMismatch(r))
                => r.outcome = "Forbidden"
         /\ r.outcome # "ok" => UNCHANGED db]_vars

\* A device handler was called on a property of another user with an area id and
\* a device id that are not stored, and answered Forbidden.
C3_Witness ==
    /\ resp.op \in DeviceInPath
    /\ PropertyForeign(resp)
    /\ resp.areaId \notin DOMAIN areas
    /\ resp.deviceId \notin DOMAIN devices
    /\ resp.outcome = "Forbidden"

(* ------------------------------------------------------------------ *)
(* SpecCost: one user with up to two distributors of different prices, *)
(* tax rates and fees, one property that can be moved from one         *)
(* distributor to the other, one area and one device; records are      *)
(* created at the three levels and updated with and without            *)
(* kwhConsumed while prices change.                                    *)
(* ------------------------------------------------------------------ *)
CostMaxUsers == 1
CostMaxProperties == 1
CostMaxChildren == 1
CostMaxRecords == 1

\* Optional tax rate and fee of a distributor payload: both absent or both given.
TaxAndFee == {<<Undefined, Undefined>>, <<1200, 5>>}

UpdateKwhValues == KwhValues \cup {Undefined}

NextCost ==
    \/ Deliver
    \/ nextId.user < CostMaxUsers /\ createUser(TRUE, Signup(nextId.user + 1))
    \/ \E u \in UserIds, c \in Cnpjs, price \in PriceInputs, tf \in TaxAndFee :
            Distributor_create(u, TRUE, c, price, tf[1], tf[2])
    \/ \E u \in UserIds, d \in DistributorIds, price \in PriceInputs :
            Distributor_update(d, u, TRUE, price, Undefined, Undefined)
    \/ \E u \in UserIds, d \in DistributorIds :
            nextId.property < CostMaxProperties /\ Property_create(u, TRUE, d, "n1")
    \/ \E u \in UserIds, p \in PropertyIds, d \in DistributorIds :
            Property_update(p, u, TRUE, d, NoName)
    \/ \E u \in UserIds, p \in PropertyIds :
            nextId.area < CostMaxChildren /\ Area_create(p, u, TRUE, "n1")
    \/ \E u \in UserIds, p \in PropertyIds, a \in AreaIds :
            nextId.device < CostMaxChildren /\ Device_create(a, p, u, TRUE, "n1")
    \/ \E u \in UserIds, p \in PropertyIds, k \in KwhValues :
            nextId.record < CostMaxRecords
            /\ createForProperty(p, u, TRUE, "DAILY", 1, k, NoName)
    \/ \E u \in UserIds, p \in PropertyIds, a \in AreaIds, k \in KwhValues :
            nextId.record < CostMaxRecords
            /\ createForArea(a, p, u, TRUE, "DAILY", 1, k, NoName)
    \/ \E u \in UserIds, p \in PropertyIds, a \in AreaIds, d \in DeviceIds, k \in KwhValues :
            nextId.record < CostMaxRecords
            /\ createForDevice(d, a, p, u, TRUE, "DAILY", 1, k, NoName)
    \/ \E u \in UserIds, p \in PropertyIds, r \in RecordIds, k \in UpdateKwhValues,
          n \in Notes :
            Consumption_update(r, p, u, TRUE, k, n)

SpecCost == Init /\ [][NextCost]_vars

\* The price per kWh stored on the distributor that property p is linked to.
CurrentPrice(p) == distributors[properties[p].distributorId].kwhPrice

\* C4. Cost on creation: a record created by createForProperty, createForArea or
\* createForDevice stores the kwhConsumed of the payload and a costBrl equal to
\* that kwhConsumed times the kwhPrice which the distributor linked to the
\* property of the path holds when the handler is called; nothing else (tax
\* rate, public lighting fee, other distributors) enters the stored cost.
C4_CostOnCreation ==
    [][(resp = Idle /\ resp'.outcome = "ok") =>
         \A u \in UserIds, p \in PropertyIds, k \in KwhValues :
            (\/ createForProperty(p, u, TRUE, "DAILY", 1, k, NoName)
             \/ \E a \in AreaIds : createForArea(a, p, u, TRUE, "DAILY", 1, k, NoName)
             \/ \E a \in AreaIds, d \in DeviceIds :
                    createForDevice(d, a, p, u, TRUE, "DAILY", 1, k, NoName))
            => /\ resp'.id \in DOMAIN consumptions' \ DOMAIN consumptions
               /\ consumptions'[resp'.id].kwhConsumed = k
               /\ consumptions'[resp'.id].costBrl = k * CurrentPrice(p)]_vars

\* A record was created for a device under a property whose distributor carries
\* a tax rate and a fee, while the user's other distributor has another price:
\* the stored cost is kwhConsumed times the linked distributor's price.
C4_Witness ==
    /\ resp.op = "createForDevice"
    /\ resp.outcome = "ok"
    /\ LET d == distributors[properties[resp.propertyId].distributorId] IN
       /\ d.taxRate # Undefined
       /\ d.publicLightingFee # Undefined
       /\ consumptions[resp.id].kwhConsumed = 2
       /\ consumptions[resp.id].costBrl = 2 * d.kwhPrice
       /\ \E o \in DOMAIN distributors : distributors[o].kwhPrice # d.kwhPrice

\* C5. Cost on update: a successful ConsumptionService.update leaves costBrl as
\* stored when the payload has no kwhConsumed, and otherwise stores the new
\* kwhConsumed times the kwhPrice which the distributor linked to the property
\* of the path holds when the handler is called.
C5_CostOnUpdate ==
    [][(resp = Idle /\ resp'.op = "Consumption.update" /\ resp'.outcome = "ok") =>
         \A u \in UserIds, p \in PropertyIds, r \in RecordIds, k \in UpdateKwhValues,
            n \in Notes :
            Consumption_update(r, p, u, TRUE, k, n)
            => /\ r \in DOMAIN consumptions'
               /\ consumptions'[r].costBrl =
                      IF k = Undefined THEN consumptions[r].costBrl
                      ELSE k * CurrentPrice(p)
               /\ consumptions'[r].kwhConsumed =
                      IF k = Undefined THEN consumptions[r].kwhConsumed ELSE k]_vars

\* An update that carried only notes has just succeeded on a record whose stored
\* cost is no longer kwhConsumed times the current price of its property.
C5_Witness ==
    /\ resp.op = "Consumption.update"
    /\ resp.outcome = "ok"
    /\ consumptions[resp.id].notes = "note"
    /\ consumptions[resp.id].costBrl #
            consumptions[resp.id].kwhConsumed * CurrentPrice(resp.propertyId)

(* ------------------------------------------------------------------ *)
(* SpecPeriod: one user with a property, an area and a device; records *)
(* are created at the three levels for two period kinds and two        *)
(* reference dates, and deleted again.                                 *)
(* ------------------------------------------------------------------ *)
PeriodMaxUsers == 1
PeriodMaxDistributors == 1
PeriodMaxProperties == 1

PeriodKinds == {"DAILY", "MONTHLY"}

CreateOps == {"createForProperty", "createForArea", "createForDevice"}

NextPeriod ==
    \/ Deliver
    \/ nextId.user < PeriodMaxUsers /\ createUser(TRUE, Signup(nextId.user + 1))
    \/ \E u \in UserIds :
            nextId.distributor < PeriodMaxDistributors
            /\ Distributor_create(u, TRUE, "c1", 20, Undefined, Undefined)
    \/ \E u \in UserIds, d \in DistributorIds :
            nextId.property < PeriodMaxProperties /\ Property_create(u, TRUE, d, "n1")
    \/ \E u \in UserIds, p \in PropertyIds : Area_create(p, u, TRUE, "n1")
    \/ \E u \in UserIds, p \in PropertyIds, a \in AreaIds : Device_create(a, p, u, TRUE, "n1")
    \/ \E u \in UserIds, p \in PropertyIds, per \in PeriodKinds, date \in Dates :
            createForProperty(p, u, TRUE, per, date, 1, NoName)
    \/ \E u \in UserIds, p \in PropertyIds, a \in AreaIds, per \in PeriodKinds,
          date \in Dates :
            createForArea(a, p, u, TRUE, per, date, 1, NoName)
    \/ \E u \in UserIds, p \in PropertyIds, a \in AreaIds, d \in DeviceIds,
          per \in PeriodKinds, date \in Dates :
            createForDevice(d, a, p, u, TRUE, per, date, 1, NoName)
    \/ \E u \in UserIds, p \in PropertyIds, r \in RecordIds : Consumption_delete(r, p, u)

SpecPeriod == Init /\ [][NextPeriod]_vars

\* The deepest node that the path of response r names.
DeepestOfPath(r) ==
    CASE r.op = "createForProperty" -> PropertyTarget(r.propertyId)
      [] r.op = "createForArea" -> AreaTarget(r.areaId)
      [] r.op = "createForDevice" -> DeviceTarget(r.deviceId)

TargetOf(row) ==
    [propertyId |-> row.propertyId, areaId |-> row.areaId, deviceId |-> row.deviceId]

\* The whole path of response r is stored as the path claims, under the requester.
PathValid(r) ==
    /\ PropertyOwned(r)
    /\ properties[r.propertyId].distributorId \in DOMAIN distributors
    /\ r.op \in AreaInPath => AreaMatches(r)
    /\ r.op \in DeviceInPath =>
            r.deviceId \in DOMAIN devices /\ devices[r.deviceId].areaId = r.areaId

\* A record of the same target, period and reference date is stored.
Duplicate(target, period, referenceDate) ==
    \E x \in DOMAIN consumptions :
        /\ TargetOf(consumptions[x]) = target
        /\ consumptions[x].period = period
        /\ consumptions[x].referenceDate = referenceDate

\* C6. Duplicate-period guard: a create with a well-formed payload and a valid
\* path fails with Conflict and stores nothing when a record of the same target,
\* period and reference date is stored, and otherwise (no record of that target,
\* or only records of another period or another reference date) succeeds and
\* stores the record; Conflict is answered in no other case.
C6_DuplicateGuard ==
    [][(resp = Idle /\ resp'.op \in CreateOps) =>
         \A per \in PeriodKinds, date \in Dates :
            LET r == resp'
                dup == Duplicate(DeepestOfPath(r), per, date) IN
            (\/ createForProperty(r.propertyId, r.userId, TRUE, per, date, 1, NoName)
             \/ createForArea(r.areaId, r.propertyId, r.userId, TRUE, per, date, 1, NoName)
             \/ createForDevice(r.deviceId, r.areaId, r.propertyId, r.userId, TRUE, per,
                                date, 1, NoName))
            => /\ r.outcome = "Conflict" => dup
               /\ (PathValid(r) /\ dup) => r.outcome = "Conflict" /\ UNCHANGED db
               /\ (PathValid(r) /\ ~dup) =>
                      /\ r.outcome = "ok"
                      /\ DOMAIN consumptions' = DOMAIN consumptions \cup {r.id}
                      /\ r.id \notin DOMAIN consumptions
                      /\ TargetOf(consumptions'[r.id]) = DeepestOfPath(r)
                      /\ consumptions'[r.id].period = per
                      /\ consumptions'[r.id].referenceDate = date]_vars

\* A create for an area was refused with Conflict while the area holds two
\* records of the same reference date and different period kinds.
C6_Witness ==
    /\ resp.op = "createForArea"
    /\ resp.outcome = "Conflict"
    /\ \E x, y \in DOMAIN consumptions :
        /\ consumptions[x].areaId = resp.areaId
        /\ consumptions[y].areaId = resp.areaId
        /\ consumptions[x].referenceDate = consumptions[y].referenceDate
        /\ consumptions[x].period # consumptions[y].period

\* Exactly one of the three target columns of a row is set.
ExactlyOneTarget(row) ==
    Cardinality({c \in {"propertyId", "areaId", "deviceId"} : row[c] # NULL}) = 1

\* C8. Tagged target: every stored consumption record has exactly one of
\* propertyId, areaId and deviceId set, and the record a create has just stored
\* carries the deepest id of the path of that create.
C8_TaggedTarget ==
    /\ \A x \in DOMAIN consumptions : ExactlyOneTarget(consumptions[x])
    /\ (resp.op \in CreateOps /\ resp.outcome = "ok") =>
            /\ resp.id \in DOMAIN consumptions
            /\ TargetOf(consumptions[resp.id]) = DeepestOfPath(resp)

\* A record was created under a property / area / device path and carries the
\* device id alone.
C8_Witness ==
    /\ resp.op = "createForDevice"
    /\ resp.outcome = "ok"
    /\ consumptions[resp.id].deviceId = resp.deviceId
    /\ consumptions[resp.id].areaId = NULL
    /\ consumptions[resp.id].propertyId = NULL
    /\ \E x \in DOMAIN consumptions : consumptions[x].propertyId # NULL

(* ------------------------------------------------------------------ *)
(* SpecRace: createForProperty / createForArea / createForDevice run   *)
(* as the sequence of awaited data-store calls they are; the steps of  *)
(* the requests in flight interleave freely.  A request holds what it  *)
(* has read so far in its entry of inflight.                           *)
(* ------------------------------------------------------------------ *)
RaceMaxUsers == 1
RaceMaxDistributors == 1
RaceMaxProperties == 1
RaceMaxChildren == 1

Finished(q, outcome) == inflight' = [inflight EXCEPT ![q] = [@ EXCEPT !.pc = "done", !.outcome = outcome]]

Advance(q, pc) == inflight' = [inflight EXCEPT ![q] = [@ EXCEPT !.pc = pc]]

\* The step after the property and its distributor have been read.
AfterProperty(target) == IF target.propertyId # NULL THEN "find" ELSE "area"

\* The step after the area has been read.
AfterArea(target) == IF target.deviceId # NULL THEN "device" ELSE "find"

\* The handler is called: the payload is parsed and propertyRepository.findById
\* is awaited.
Create_start(q, op, target, areaId, propertyId, userId, period, referenceDate) ==
    /\ inflight[q].pc = "idle"
    /\ LET out == IF propertyId \notin DOMAIN properties THEN "NotFound"
                  ELSE IF properties[propertyId].userId # userId THEN "Forbidden"
                  ELSE "ok" IN
       inflight' = [inflight EXCEPT ![q] =
            [pc |-> IF out = "ok" THEN "distributor" ELSE "done",
             op |-> op, target |-> target, areaId |-> areaId, propertyId |-> propertyId,
             userId |-> userId, period |-> period, referenceDate |-> referenceDate,
             distributorId |-> IF out = "ok" THEN properties[propertyId].distributorId
                               ELSE NULL,
             kwhPrice |-> Undefined, outcome |-> out]]
    /\ UNCHANGED <<db, resp, authVars>>

\* await this.distributorRepository.findById(property.distributorId)
Create_distributor(q) ==
    /\ inflight[q].pc = "distributor"
    /\ IF inflight[q].distributorId \notin DOMAIN distributors
       THEN Finished(q, "NotFound")
       ELSE inflight' = [inflight EXCEPT ![q] =
                [@ EXCEPT !.pc = AfterProperty(inflight[q].target),
                          !.kwhPrice = distributors[inflight[q].distributorId].kwhPrice]]
    /\ UNCHANGED <<db, resp, authVars>>

\* await this.validateAreaBelongsToProperty(areaId, propertyId)
Create_area(q) ==
    /\ inflight[q].pc = "area"
    /\ LET out == validateAreaBelongsToProperty(inflight[q].areaId, inflight[q].propertyId) IN
       IF out # "ok" THEN Finished(q, out) ELSE Advance(q, AfterArea(inflight[q].target))
    /\ UNCHANGED <<db, resp, authVars>>

\* await this.validateDeviceBelongsToArea(deviceId, areaId)
Create_device(q) ==
    /\ inflight[q].pc = "device"
    /\ LET out == validateDeviceBelongsToArea(inflight[q].target.deviceId, inflight[q].areaId) IN
       IF out # "ok" THEN Finished(q, out) ELSE Advance(q, "find")
    /\ UNCHANGED <<db, resp, authVars>>

\* const existing = await this.consumptionRepository.findByTargetAndPeriod(...)
Create_find(q) ==
    /\ inflight[q].pc = "find"
    /\ IF findByTargetAndPeriod(inflight[q].target, inflight[q].period,
                                inflight[q].referenceDate) # {}
       THEN Finished(q, "Conflict")
       ELSE Advance(q, "insert")
    /\ UNCHANGED <<db, resp, authVars>>

\* consumption_records_propertyId_fkey, _areaId_fkey, _deviceId_fkey: the row
\* that the target names is stored.
consumption_records_fkeys(target) ==
    /\ target.propertyId # NULL => target.propertyId \in DOMAIN properties
    /\ target.areaId # NULL => target.areaId \in DOMAIN areas
    /\ target.deviceId # NULL => target.deviceId \in DOMAIN devices

\* return this.consumptionRepository.create(target, data, costBrl); the insert
\* of a row whose parent is gone is refused by the foreign key.
Create_insert(q) ==
    /\ inflight[q].pc = "insert"
    /\ IF ~consumption_records_fkeys(inflight[q].target)
       THEN /\ Finished(q, "InternalError")
            /\ UNCHANGED <<db, resp, authVars>>
       ELSE /\ nextId.record < MaxRecords
            /\ LET id == nextId.record + 1
                   c == inflight[q] IN
               /\ consumptions' = Insert(consumptions, id,
                      NewRecord(c.target, c.period, c.referenceDate, 1,
                                costOf(1, c.kwhPrice), NoName))
               /\ nextId' = [nextId EXCEPT !.record = id]
            /\ Finished(q, "ok")
            /\ UNCHANGED <<users, distributors, properties, areas, devices, resp, authVars>>

NextRace ==
    \/ Deliver
    \/ nextId.user < RaceMaxUsers /\ createUser(TRUE, Signup(nextId.user + 1))
    \/ \E u \in UserIds :
            nextId.distributor < RaceMaxDistributors
            /\ Distributor_create(u, TRUE, "c1", 20, Undefined, Undefined)
    \/ \E u \in UserIds, d \in DistributorIds :
            nextId.property < RaceMaxProperties /\ Property_create(u, TRUE, d, "n1")
    \/ \E u \in UserIds, p \in PropertyIds :
            nextId.area < RaceMaxChildren /\ Area_create(p, u, TRUE, "n1")
    \/ \E u \in UserIds, p \in PropertyIds, a \in AreaIds :
            nextId.device < RaceMaxChildren /\ Device_create(a, p, u, TRUE, "n1")
    \/ \E q \in RequestIds, u \in users, p \in DOMAIN properties, date \in Dates :
            Create_start(q, "createForProperty", PropertyTarget(p), NULL, p, u, "DAILY", date)
    \/ \E q \in RequestIds, u \in users, p \in DOMAIN properties, a \in AreaIds,
          date \in Dates :
            Create_start(q, "createForArea", AreaTarget(a), a, p, u, "DAILY", date)
    \/ \E q \in RequestIds, u \in users, p \in DOMAIN properties,
          a \in DOMAIN areas, d \in DeviceIds, date \in Dates :
            Create_start(q, "createForDevice", DeviceTarget(d), a, p, u, "DAILY", date)
    \/ \E q \in RequestIds : Create_distributor(q)
    \/ \E q \in RequestIds : Create_area(q)
    \/ \E q \in RequestIds : Create_device(q)
    \/ \E q \in RequestIds : Create_find(q)
    \/ \E q \in RequestIds : Create_insert(q)

SpecRace == Init /\ [][NextRace]_vars

\* C7. Period uniqueness: in every reachable state, under any interleaving of
\* the steps of concurrent create requests, no two stored consumption records
\* have the same target, period and reference date.
C7_PeriodUniqueness ==
    \A x, y \in DOMAIN consumptions :
        (/\ TargetOf(consumptions[x]) = TargetOf(consumptions[y])
         /\ consumptions[x].period = consumptions[y].period
         /\ consumptions[x].referenceDate = consumptions[y].referenceDate)
        => x = y

(* ------------------------------------------------------------------ *)
(* SpecCascade: users log in, ask for password resets and build their  *)
(* hierarchies with records at the three levels; devices, areas,       *)
(* properties and users are deleted; tokens are presented and the      *)
(* handlers are called again with the id of a deleted property.        *)
(* ------------------------------------------------------------------ *)
CascadeMaxProperties == 1
CascadeMaxChildren == 1

\* Property ids that were issued and whose row is deleted.
DeletedProperties == (1..nextId.property) \ DOMAIN properties

\* The handlers, called with well-formed payloads, on a path that names a
\* deleted property.
AfterPropertyDelete(u, p, a, d, r) ==
    \/ Property_findById(p, u)
    \/ Property_update(p, u, TRUE, NULL, "n2")
    \/ Property_delete(p, u)
    \/ Area_create(p, u, TRUE, "n1")
    \/ Area_findAll(p, u)
    \/ Area_findById(a, p, u)
    \/ Area_update(a, p, u, TRUE, "n2")
    \/ Area_delete(a, p, u)
    \/ Device_create(a, p, u, TRUE, "n1")
    \/ Device_findAll(a, p, u)
    \/ Device_findById(d, a, p, u)
    \/ Device_update(d, a, p, u, TRUE, "n2")
    \/ Device_delete(d, a, p, u)
    \/ createForProperty(p, u, TRUE, "DAILY", 1, 1, NoName)
    \/ createForArea(a, p, u, TRUE, "DAILY", 1, 1, NoName)
    \/ createForDevice(d, a, p, u, TRUE, "DAILY", 1, 1, NoName)
    \/ findAllForProperty(p, u, NoName)
    \/ findAllForArea(a, p, u, NoName)
    \/ findAllForDevice(d, a, p, u, NoName)
    \/ Consumption_findById(r, p, u)
    \/ Consumption_update(r, p, u, TRUE, 2, NoName)
    \/ Consumption_delete(r, p, u)

NextCascade ==
    \/ Deliver
    \/ createUser(TRUE, Signup(nextId.user + 1))
    \/ \E u \in users, ch \in TokenChannel, s \in Seconds : login(u, TRUE, TRUE, ch, s)
    \/ \E u \in users : forgotPassword(u, TRUE)
    \/ \E t \in TokenIds : authenticate(t)
    \/ \E u \in users : Distributor_create(u, TRUE, "c1", 20, Undefined, Undefined)
    \/ \E u \in users, d \in DOMAIN distributors :
            nextId.property < CascadeMaxProperties /\ Property_create(u, TRUE, d, "n1")
    \/ \E u \in users, p \in DOMAIN properties :
            nextId.area < CascadeMaxChildren /\ Area_create(p, u, TRUE, "n1")
    \/ \E u \in users, p \in DOMAIN properties, a \in DOMAIN areas :
            nextId.device < CascadeMaxChildren /\ Device_create(a, p, u, TRUE, "n1")
    \/ \E u \in users, p \in DOMAIN properties :
            createForProperty(p, u, TRUE, "DAILY", 1, 1, NoName)
    \/ \E u \in users, p \in DOMAIN properties, a \in DOMAIN areas :
            createForArea(a, p, u, TRUE, "DAILY", 1, 1, NoName)
    \/ \E u \in users, p \in DOMAIN properties, a \in DOMAIN areas, d \in DOMAIN devices :
            createForDevice(d, a, p, u, TRUE, "DAILY", 1, 1, NoName)
    \/ \E u \in users, p \in DOMAIN properties, a \in DOMAIN areas, d \in DOMAIN devices :
            Device_delete(d, a, p, u)
    \/ \E u \in users, p \in DOMAIN properties, a \in DOMAIN areas : Area_delete(a, p, u)
    \/ \E u \in users, p \in DOMAIN properties : Property_delete(p, u)
    \/ \E u \in UserIds : deleteUser(u)
    \/ \E u \in users, p \in DeletedProperties, a \in AreaIds, d \in DeviceIds,
          r \in RecordIds :
            AfterPropertyDelete(u, p, a, d, r)

SpecCascade == Init /\ [][NextCascade]_vars

\* The stored areas, devices and records that descend from property p.
AreasUnder(p) == {a \in DOMAIN areas : areas[a].propertyId = p}

DevicesUnder(p) == {d \in DOMAIN devices : devices[d].areaId \in AreasUnder(p)}

RecordsUnder(p) == {r \in DOMAIN consumptions : RootOfRecord(r) = p}

\* The stored records of area a and of its devices, and those of device d.
RecordsOfArea(a) ==
    {r \in DOMAIN consumptions :
        \/ consumptions[r].areaId = a
        \/ /\ consumptions[r].deviceId \in DOMAIN devices
           /\ devices[consumptions[r].deviceId].areaId = a}

RecordsOfDevice(d) == {r \in DOMAIN consumptions : consumptions[r].deviceId = d}

\* None of the rows ks is left in table t after the step.
Gone(ks, t) == ks \cap DOMAIN t = {}

\* C9. Cascade completeness: a successful PropertyService.delete leaves neither
\* the property nor any area, device or consumption record that descended from
\* it; a successful AreaService.delete leaves neither the area nor its devices
\* nor their records; a successful DeviceService.delete leaves neither the
\* device nor its records; and every handler called afterwards, with a
\* well-formed payload, on a path that names a deleted property id answers
\* NotFound.
C9_CascadeCompleteness ==
    [][(resp = Idle /\ resp' # Idle) =>
         LET r == resp' IN
         /\ (r.op = "Property.delete" /\ r.outcome = "ok") =>
                /\ Gone({r.id}, properties')
                /\ Gone(AreasUnder(r.id), areas')
                /\ Gone(DevicesUnder(r.id), devices')
                /\ Gone(RecordsUnder(r.id), consumptions')
         /\ (r.op = "Area.delete" /\ r.outcome = "ok") =>
                /\ Gone({r.areaId}, areas')
                /\ Gone(DevicesOfAreas({r.areaId}), devices')
                /\ Gone(RecordsOfArea(r.areaId), consumptions')
         /\ (r.op = "Device.delete" /\ r.outcome = "ok") =>
                /\ Gone({r.deviceId}, devices')
                /\ Gone(RecordsOfDevice(r.deviceId), consumptions')
         /\ (r.op \in PropertyInPath /\ r.propertyId \in DeletedProperties) =>
                r.outcome = "NotFound" /\ UNCHANGED db]_vars

\* A property that had an area, a device and records at the three levels was
\* deleted: nothing of them is stored.
C9_Witness ==
    /\ resp.op = "Property.delete"
    /\ resp.outcome = "ok"
    /\ resp.id \in DeletedProperties
    /\ nextId.area = 1 /\ nextId.device = 1 /\ nextId.record = 2
    /\ properties = EmptyTable
    /\ areas = EmptyTable
    /\ devices = EmptyTable
    /\ consumptions = EmptyTable

\* Everything stored that user id owns, directly or through a property.
OwnedBy(id) ==
    {<<"user", u>> : u \in users \cap {id}}
        \cup {<<"token", t>> : t \in RowsOfUser(authTokens, id)}
        \cup {<<"reset", x>> : x \in RowsOfUser(passwordResets, id)}
        \cup {<<"distributor", d>> : d \in RowsOfUser(distributors, id)}
        \cup {<<"property", p>> : p \in RowsOfUser(properties, id)}
        \cup {<<"area", a>> : a \in {x \in DOMAIN areas : OwnerOfArea(x) = id}}
        \cup {<<"device", d>> : d \in {x \in DOMAIN devices : OwnerOfDevice(x) = id}}
        \cup {<<"record", r>> : r \in {x \in DOMAIN consumptions : OwnerOfRecord(x) = id}}

\* The rows of every table, tagged as in OwnedBy.
Stored ==
    {<<"user", u>> : u \in users}
        \cup {<<"token", t>> : t \in DOMAIN authTokens}
        \cup {<<"reset", x>> : x \in DOMAIN passwordResets}
        \cup {<<"distributor", d>> : d \in DOMAIN distributors}
        \cup {<<"property", p>> : p \in DOMAIN properties}
        \cup {<<"area", a>> : a \in DOMAIN areas}
        \cup {<<"device", d>> : d \in DOMAIN devices}
        \cup {<<"record", r>> : r \in DOMAIN consumptions}

\* C10. User deletion: UserService.deleteUser on a stored user succeeds whatever
\* the user owns and leaves nothing of what the user owned in the store, and
\* nothing else is removed; a token of a user who is no longer stored is
\* rejected by the authentication middleware.
C10_UserDeletion ==
    [][(resp = Idle /\ resp' # Idle) =>
         LET r == resp' IN
         /\ (r.op = "deleteUser" /\ r.id \in users) =>
                /\ r.outcome = "ok"
                /\ Stored' = Stored \ OwnedBy(r.id)
         /\ (r.op = "authenticate" /\ r.id \in DOMAIN jwts /\ jwts[r.id].userId \notin users)
                => r.outcome = "Unauthorized"]_vars

\* A user who had logged in, asked for a password reset and owned a distributor,
\* a property, an area, a device and records was deleted, and the token was
\* then refused.
C10_Witness ==
    /\ resp.op = "authenticate"
    /\ resp.outcome = "Unauthorized"
    /\ resp.id \in DOMAIN jwts
    /\ jwts[resp.id].userId \notin users
    /\ jwts[resp.id].exp = Undefined
    /\ nextId.user = 1 /\ nextId.reset = 1 /\ nextId.distributor = 1
    /\ nextId.property = 1 /\ nextId.area = 1 /\ nextId.device = 1 /\ nextId.record = 2
    /\ Stored = {}

(* ------------------------------------------------------------------ *)
(* SpecGuard: DistributorService.delete, PropertyService.create and    *)
(* PropertyService.update run as the sequences of awaited data-store   *)
(* calls they are, next to the uninterrupted handlers; the steps of    *)
(* the requests in flight interleave freely.  The data store enforces  *)
(* the foreign keys of properties at every write.                      *)
(* ------------------------------------------------------------------ *)
GuardMaxUsers == 1
GuardMaxDistributors == 2
GuardMaxProperties == 2

\* A data store without the constraint.
properties_distributorId_fkey_Off(id) == FALSE

\* properties_distributorId_fkey ... ON DELETE RESTRICT: a distributor row that
\* a property row references is not deleted.
properties_distributorId_fkey(id) == \E p \in DOMAIN properties : properties[p].distributorId = id

\* properties_userId_fkey and properties_distributorId_fkey at INSERT or UPDATE
\* of a property row: the rows referenced exist.
properties_references(userId, distributorId) == userId \in users /\ distributorId \in DOMAIN distributors

\* delete: await this.findById(id, requestingUserId)
Delete_findById(q, id, requestingUserId) ==
    /\ inflight[q].pc = "idle"
    /\ LET out == Distributor_check(id, requestingUserId) IN
       inflight' = [inflight EXCEPT ![q] =
            [pc |-> IF out = "ok" THEN "Distributor.hasProperties" ELSE "done",
             op |-> "Distributor.delete", id |-> id, userId |-> requestingUserId,
             distributorId |-> id, outcome |-> out]]
    /\ UNCHANGED <<db, resp, authVars>>

\* delete: const hasLinkedProperties = await this.distributorRepository.hasProperties(id)
Delete_hasProperties(q) ==
    /\ inflight[q].pc = "Distributor.hasProperties"
    /\ IF hasProperties(inflight[q].id)
       THEN Finished(q, "Conflict")
       ELSE Advance(q, "Distributor.delete")
    /\ UNCHANGED <<db, resp, authVars>>

\* delete: await this.distributorRepository.delete(id)
Delete_delete(q) ==
    /\ inflight[q].pc = "Distributor.delete"
    /\ IF \/ inflight[q].id \notin DOMAIN distributors
          \/ properties_distributorId_fkey(inflight[q].id)
       THEN /\ Finished(q, "InternalError")
            /\ UNCHANGED <<db, resp, authVars>>
       ELSE /\ distributors' = DeleteRows(distributors, {inflight[q].id})
            /\ Finished(q, "ok")
            /\ UNCHANGED <<users, properties, areas, devices, consumptions, nextId,
                           resp, authVars>>

\* PropertyService.create: await this.validateDistributorOwnership(data.distributorId, userId)
PropertyCreate_validate(q, userId, distributorId) ==
    /\ inflight[q].pc = "idle"
    /\ LET out == validateDistributorOwnership(distributorId, userId) IN
       inflight' = [inflight EXCEPT ![q] =
            [pc |-> IF out = "ok" THEN "Property.create" ELSE "done",
             op |-> "Property.create", id |-> NULL, userId |-> userId,
             distributorId |-> distributorId, outcome |-> out]]
    /\ UNCHANGED <<db, resp, authVars>>

\* PropertyService.create: return this.propertyRepository.create(userId, data)
PropertyCreate_create(q) ==
    /\ inflight[q].pc = "Property.create"
    /\ IF ~properties_references(inflight[q].userId, inflight[q].distributorId)
       THEN /\ Finished(q, "InternalError")
            /\ UNCHANGED <<db, resp, authVars>>
       ELSE /\ nextId.property < GuardMaxProperties
            /\ LET id == nextId.property + 1 IN
               /\ properties' = Insert(properties, id,
                      [userId |-> inflight[q].userId,
                       distributorId |-> inflight[q].distributorId, name |-> "n1"])
               /\ nextId' = [nextId EXCEPT !.property = id]
            /\ Finished(q, "ok")
            /\ UNCHANGED <<users, distributors, areas, devices, consumptions, resp, authVars>>

\* PropertyService.update: await this.findById(id, requestingUserId)
PropertyUpdate_findById(q, id, requestingUserId, distributorId) ==
    /\ inflight[q].pc = "idle"
    /\ LET out == Property_check(id, requestingUserId) IN
       inflight' = [inflight EXCEPT ![q] =
            [pc |-> IF out = "ok" THEN "Property.validate" ELSE "done",
             op |-> "Property.update", id |-> id, userId |-> requestingUserId,
             distributorId |-> distributorId, outcome |-> out]]
    /\ UNCHANGED <<db, resp, authVars>>

\* PropertyService.update: await this.validateDistributorOwnership(data.distributorId, ...)
PropertyUpdate_validate(q) ==
    /\ inflight[q].pc = "Property.validate"
    /\ LET out == validateDistributorOwnership(inflight[q].distributorId, inflight[q].userId) IN
       IF out # "ok" THEN Finished(q, out) ELSE Advance(q, "Property.update")
    /\ UNCHANGED <<db, resp, authVars>>

\* PropertyService.update: return this.propertyRepository.update(id, data)
PropertyUpdate_update(q) ==
    /\ inflight[q].pc = "Property.update"
    /\ IF \/ inflight[q].id \notin DOMAIN properties
          \/ ~properties_references(inflight[q].userId, inflight[q].distributorId)
       THEN /\ Finished(q, "InternalError")
            /\ UNCHANGED <<db, resp, authVars>>
       ELSE /\ properties' = [properties EXCEPT
                    ![inflight[q].id] = Property_patch(@, inflight[q].distributorId, NoName)]
            /\ Finished(q, "ok")
            /\ UNCHANGED <<users, distributors, areas, devices, consumptions, nextId,
                           resp, authVars>>

NextGuard ==
    \/ Deliver
    \/ nextId.user < GuardMaxUsers /\ createUser(TRUE, Signup(nextId.user + 1))
    \/ \E u \in UserIds, c \in Cnpjs :
            nextId.distributor < GuardMaxDistributors
            /\ Distributor_create(u, TRUE, c, 20, Undefined, Undefined)
    \/ \E u \in UserIds, d \in DistributorIds :
            nextId.property < GuardMaxProperties /\ Property_create(u, TRUE, d, "n1")
    \/ \E u \in UserIds, p \in PropertyIds, d \in DistributorIds :
            Property_update(p, u, TRUE, d, NoName)
    \/ \E u \in UserIds, p \in PropertyIds : Property_delete(p, u)
    \/ \E u \in UserIds, d \in DistributorIds : Distributor_delete(d, u)
    \/ \E q \in RequestIds, u \in users, d \in DOMAIN distributors : Delete_findById(q, d, u)
    \/ \E q \in RequestIds : Delete_hasProperties(q)
    \/ \E q \in RequestIds : Delete_delete(q)
    \/ \E q \in RequestIds, u \in users, d \in DOMAIN distributors :
            PropertyCreate_validate(q, u, d)
    \/ \E q \in RequestIds : PropertyCreate_create(q)
    \/ \E q \in RequestIds, u \in users, p \in DOMAIN properties, d \in DOMAIN distributors :
            PropertyUpdate_findById(q, p, u, d)
    \/ \E q \in RequestIds : PropertyUpdate_validate(q)
    \/ \E q \in RequestIds : PropertyUpdate_update(q)

SpecGuard == Init /\ [][NextGuard]_vars

\* The properties that reference distributor d.
PropertiesOf(d) == {p \in DOMAIN properties : properties[p].distributorId = d}

\* C11. Distributor deletion guard: DistributorService.delete called by the
\* owner answers Conflict when at least one property references the
\* distributor, and then neither the distributor nor any property changes;
\* it succeeds and removes the distributor when no property references it.
\* Under any interleaving of the steps of delete, property create and property
\* update requests, no step removes a distributor that a property references
\* before or after the step, and no stored property names a distributor that
\* is not stored.
C11_DeletionGuard ==
    [][/\ (/\ resp = Idle
           /\ resp'.op = "Distributor.delete"
           /\ Distributor_check(resp'.id, resp'.userId) = "ok")
          => IF PropertiesOf(resp'.id) # {}
             THEN /\ resp'.outcome = "Conflict"
                  /\ distributors' = distributors
                  /\ properties' = properties
             ELSE /\ resp'.outcome = "ok"
                  /\ resp'.id \notin DOMAIN distributors'
       /\ \A d \in DOMAIN distributors \ DOMAIN distributors' :
            /\ PropertiesOf(d) = {}
            /\ \A p \in DOMAIN properties' : properties'[p].distributorId # d
       /\ \A p \in DOMAIN properties' : properties'[p].distributorId \in DOMAIN distributors'
      ]_vars

\* A delete request passed its hasProperties check, a property create or
\* update that named the same distributor wrote its row first, and the delete
\* was then refused by the data store: the distributor is still stored.
C11_Witness ==
    \E q \in RequestIds :
        /\ inflight[q].pc = "done"
        /\ inflight[q].op = "Distributor.delete"
        /\ inflight[q].outcome = "InternalError"
        /\ inflight[q].id \in DOMAIN distributors
        /\ PropertiesOf(inflight[q].id) # {}

(* ------------------------------------------------------------------ *)
(* SpecTenancy: two users register distributors and create, reassign   *)
(* and delete properties, naming every distributor id, with            *)
(* well-formed and malformed payloads.                                  *)
(* ------------------------------------------------------------------ *)
DistributorInputs == DistributorIds \cup {NULL}

NextTenancy ==
    \/ Deliver
    \/ createUser(TRUE, Signup(nextId.user + 1))
    \/ \E u \in UserIds, c \in Cnpjs : Distributor_create(u, TRUE, c, 20, Undefined, Undefined)
    \/ \E u \in UserIds, d \in DistributorIds : Distributor_delete(d, u)
    \/ \E u \in UserIds, d \in DistributorIds, wf \in BOOLEAN :
            Property_create(u, wf, d, "n1")
    \/ \E u \in UserIds, p \in PropertyIds, d \in DistributorInputs, wf \in BOOLEAN :
            Property_update(p, u, wf, d, "n2")
    \/ \E u \in UserIds, p \in PropertyIds : Property_delete(p, u)

SpecTenancy == Init /\ [][NextTenancy]_vars

\* The outcome the claim requires from a call that names distributor d as user u.
ForeignDistributorRefused(u, d) ==
    /\ d \notin DOMAIN distributors => resp'.outcome = "NotFound"
    /\ (d \in DOMAIN distributors /\ distributors[d].userId # u) => resp'.outcome = "Forbidden"
    /\ (d \notin DOMAIN distributors \/ distributors[d].userId # u) => properties' = properties

\* C12. Property-distributor tenancy: PropertyService.create and
\* PropertyService.update called with a distributorId answer NotFound when no
\* such distributor is stored and Forbidden when it belongs to another user,
\* and store nothing; after every step each stored property names a stored
\* distributor whose userId is the property's userId.
C12_DistributorTenancy ==
    [][/\ \A u \in UserIds, d \in DistributorIds :
            Property_create(u, TRUE, d, "n1") => ForeignDistributorRefused(u, d)
       /\ \A u \in UserIds, p \in PropertyIds, d \in DistributorIds :
            (Property_check(p, u) = "ok" /\ Property_update(p, u, TRUE, d, "n2"))
                => ForeignDistributorRefused(u, d)
       /\ \A p \in DOMAIN properties' :
            /\ properties'[p].distributorId \in DOMAIN distributors'
            /\ distributors'[properties'[p].distributorId].userId = properties'[p].userId
      ]_vars

\* The owner of a stored property asked to reassign it to a distributor of
\* another user and was refused.
C12_Witness ==
    /\ resp.op = "Property.update"
    /\ resp.outcome = "Forbidden"
    /\ Property_check(resp.id, resp.userId) = "ok"
    /\ \E d \in DOMAIN distributors : distributors[d].userId # resp.userId

(* ------------------------------------------------------------------ *)
(* SpecTariff: DistributorService.create runs uninterrupted and as     *)
(* its two awaited data-store calls, for two users and two CNPJs; the  *)
(* steps of the requests in flight interleave freely.                  *)
(* ------------------------------------------------------------------ *)

\* A data store without the index.
energy_distributors_userId_cnpj_key_Off(userId, cnpj) == TRUE

\* CREATE UNIQUE INDEX energy_distributors_userId_cnpj_key: a row is accepted
\* when no stored row has its (userId, cnpj).
energy_distributors_userId_cnpj_key(userId, cnpj) == \A d \in DOMAIN distributors : distributors[d].userId # userId \/ distributors[d].cnpj # cnpj

\* create: const existing = await this.distributorRepository.findByUserAndCnpj(userId, data.cnpj)
DistributorCreate_find(q, userId, cnpj) ==
    /\ inflight[q].pc = "idle"
    /\ LET out == IF findByUserAndCnpj(userId, cnpj) # {} THEN "Conflict" ELSE "ok" IN
       inflight' = [inflight EXCEPT ![q] =
            [pc |-> IF out = "ok" THEN "Distributor.create" ELSE "done",
             op |-> "Distributor.create", id |-> NULL, userId |-> userId,
             cnpj |-> cnpj, outcome |-> out]]
    /\ UNCHANGED <<db, resp, authVars>>

\* create: return this.distributorRepository.create(userId, data)
DistributorCreate_create(q) ==
    /\ inflight[q].pc = "Distributor.create"
    /\ IF \/ inflight[q].userId \notin users
          \/ ~energy_distributors_userId_cnpj_key(inflight[q].userId, inflight[q].cnpj)
       THEN /\ Finished(q, "InternalError")
            /\ UNCHANGED <<db, resp, authVars>>
       ELSE /\ nextId.distributor < MaxDistributors
            /\ LET id == nextId.distributor + 1 IN
               /\ distributors' = Insert(distributors, id,
                      [userId |-> inflight[q].userId, cnpj |-> inflight[q].cnpj,
                       kwhPrice |-> toDecimal6(20), taxRate |-> Undefined,
                       publicLightingFee |-> Undefined])
               /\ nextId' = [nextId EXCEPT !.distributor = id]
               /\ inflight' = [inflight EXCEPT ![q] =
                      [@ EXCEPT !.pc = "done", !.outcome = "ok", !.id = id]]
            /\ UNCHANGED <<users, properties, areas, devices, consumptions, resp, authVars>>

NextTariff ==
    \/ Deliver
    \/ createUser(TRUE, Signup(nextId.user + 1))
    \/ \E u \in UserIds, c \in Cnpjs : Distributor_create(u, TRUE, c, 20, Undefined, Undefined)
    \/ \E u \in UserIds, d \in DistributorIds : Distributor_delete(d, u)
    \/ \E q \in RequestIds, u \in users, c \in Cnpjs : DistributorCreate_find(q, u, c)
    \/ \E q \in RequestIds : DistributorCreate_create(q)

SpecTariff == Init /\ [][NextTariff]_vars

\* C13. Tariff uniqueness per user: DistributorService.create answers Conflict
\* and stores nothing when the calling user already has a distributor with
\* the CNPJ of the payload, and stores a new distributor when the user has
\* none with it, whether or not another user has one; after every step,
\* under any interleaving of the steps of concurrent creates, no two stored
\* distributors have the same userId and cnpj.
C13_TariffUniqueness ==
    [][/\ \A u \in users, c \in Cnpjs :
            Distributor_create(u, TRUE, c, 20, Undefined, Undefined)
            => IF \E d \in DOMAIN distributors :
                      distributors[d].userId = u /\ distributors[d].cnpj = c
               THEN resp'.outcome = "Conflict" /\ distributors' = distributors
               ELSE /\ resp'.outcome = "ok"
                    /\ resp'.id \in DOMAIN distributors' \ DOMAIN distributors
                    /\ distributors'[resp'.id].userId = u
                    /\ distributors'[resp'.id].cnpj = c
       /\ \A x, y \in DOMAIN distributors' :
            (/\ distributors'[x].userId = distributors'[y].userId
             /\ distributors'[x].cnpj = distributors'[y].cnpj) => x = y
      ]_vars

\* Two concurrent creates of one user with one CNPJ both found no duplicate;
\* the first stored its row and the second was refused by the data store.
C13_Witness ==
    \E q1, q2 \in RequestIds :
        /\ inflight[q1].pc = "done" /\ inflight[q2].pc = "done"
        /\ inflight[q1].outcome = "ok" /\ inflight[q2].outcome = "InternalError"
        /\ inflight[q1].userId = inflight[q2].userId
        /\ inflight[q1].cnpj = inflight[q2].cnpj
        /\ inflight[q1].id \in DOMAIN distributors

(* ------------------------------------------------------------------ *)
(* SpecAuth: a user logs in on both channels, presents the tokens to   *)
(* protected routes, logs out, and is deleted, while the clock runs.   *)
(* The process is started with one of several JWT_WEB_EXPIRES_IN       *)
(* values.                                                             *)
(* ------------------------------------------------------------------ *)
AuthMaxUsers == 1

\* "15m", "1h" and "1w".
JwtWebExpiresInValues == {[value |-> 15, unit |-> "m"], [value |-> 1, unit |-> "h"], [value |-> 1, unit |-> "w"]}

InitAuth ==
    /\ users = {}
    /\ distributors = EmptyTable
    /\ properties = EmptyTable
    /\ areas = EmptyTable
    /\ devices = EmptyTable
    /\ consumptions = EmptyTable
    /\ nextId = [user |-> 0, distributor |-> 0, property |-> 0, area |-> 0,
                 device |-> 0, record |-> 0, token |-> 0, reset |-> 0]
    /\ inflight = [q \in RequestIds |-> [pc |-> "idle"]]
    /\ resp = Idle
    /\ authTokens = EmptyTable
    /\ passwordResets = EmptyTable
    /\ jwts = EmptyTable
    /\ now = 0
    /\ env \in {[JWT_WEB_EXPIRES_IN |-> e] : e \in JwtWebExpiresInValues}
    /\ outbox = <<>>
    /\ accounts = EmptyTable

\* AuthService.logout
logout(token) ==
    /\ resp = Idle
    /\ LET out == IF token \notin DOMAIN authTokens THEN "Unauthorized"
                  ELSE IF authTokens[token].revokedAt # Undefined THEN "Unauthorized"
                  ELSE "ok"
           u == IF token \in DOMAIN jwts THEN jwts[token].userId ELSE NULL IN
       IF out # "ok"
       THEN NoWrite(Reply("logout", u, NULL, NULL, NULL, token, out, {}))
       ELSE /\ authTokens' = [authTokens EXCEPT ![token].revokedAt = now]
            /\ resp' = Reply("logout", u, NULL, NULL, NULL, token, "ok", {})
            /\ UNCHANGED <<db, inflight, passwordResets, jwts, now, env, outbox, accounts>>

\* router.post("/logout", authenticate, ...): the middleware, then the handler.
POST_logout(token) ==
    IF authenticateOutcome(token) # "ok"
    THEN /\ resp = Idle
         /\ NoWrite(Reply("logout",
                          IF token \in DOMAIN jwts THEN jwts[token].userId ELSE NULL,
                          NULL, NULL, NULL, token, "Unauthorized", {}))
    ELSE logout(token)

NextAuth ==
    \/ Deliver
    \/ Tick
    \/ nextId.user < AuthMaxUsers /\ createUser(TRUE, Signup(nextId.user + 1))
    \/ \E u \in UserIds : deleteUser(u)
    \/ \E u \in UserIds, wf \in BOOLEAN, passwordOk \in BOOLEAN, ch \in TokenChannel,
          s \in Seconds :
            login(u, wf, passwordOk, ch, s)
    \/ \E t \in TokenIds : authenticate(t)
    \/ \E t \in TokenIds : POST_logout(t)

SpecAuth == InitAuth /\ [][NextAuth]_vars

\* The token has a stored row that is not revoked and whose expiresAt is unset
\* or strictly later than the clock.
ActiveStrict(token) ==
    /\ token \in DOMAIN authTokens
    /\ authTokens[token].revokedAt = Undefined
    /\ authTokens[token].expiresAt = Undefined \/ authTokens[token].expiresAt > now

\* C14. Token acceptance: the authentication middleware lets a request through
\* exactly when the token verifies and has a stored row with revokedAt unset
\* and expiresAt unset or strictly in the future; otherwise the request ends
\* with Unauthorized and the handler behind the middleware does not run.
C14_TokenAcceptance ==
    [][(resp = Idle /\ resp'.op \in {"authenticate", "logout"})
       => /\ resp'.op = "authenticate"
             => (resp'.outcome = "ok" <=> (jwtVerify(resp'.id) /\ ActiveStrict(resp'.id)))
          /\ ~(jwtVerify(resp'.id) /\ ActiveStrict(resp'.id))
             => (resp'.outcome = "Unauthorized" /\ authTokens' = authTokens)
      ]_vars

\* C15. Channel-dependent expiry: login with channel WEB stores a token row
\* whose expiresAt is later than the instant of the login, and login with
\* channel MOBILE one without expiresAt; at every instant after its expiresAt
\* a stored WEB token is refused by the authentication middleware, and a stored
\* MOBILE token is accepted at every instant at which it is not revoked.
C15_ChannelExpiry ==
    [][/\ (resp = Idle /\ resp'.op = "login" /\ resp'.outcome = "ok")
          => /\ resp'.id \in DOMAIN authTokens' \ DOMAIN authTokens
             /\ authTokens'[resp'.id].channel = "WEB"
                => (authTokens'[resp'.id].expiresAt # Undefined
                    /\ authTokens'[resp'.id].expiresAt > now)
             /\ authTokens'[resp'.id].channel = "MOBILE"
                => authTokens'[resp'.id].expiresAt = Undefined
       /\ \A t \in DOMAIN authTokens' :
            /\ (authTokens'[t].channel = "WEB" /\ now' > authTokens'[t].expiresAt)
               => authenticateOutcome(t)' = "Unauthorized"
            /\ (authTokens'[t].channel = "MOBILE" /\ authTokens'[t].revokedAt = Undefined)
               => authenticateOutcome(t)' = "ok"
       /\ (resp = Idle /\ resp'.op = "authenticate")
          => resp'.outcome = authenticateOutcome(resp'.id)
      ]_vars

\* A WEB token whose exp claim still verifies is presented after the expiresAt
\* of its row and is refused, and a MOBILE token issued no later is still
\* accepted.
C15_Witness ==
    /\ resp.op = "authenticate"
    /\ resp.outcome = "Unauthorized"
    /\ resp.id \in DOMAIN authTokens
    /\ authTokens[resp.id].channel = "WEB"
    /\ authTokens[resp.id].revokedAt = Undefined
    /\ now > authTokens[resp.id].expiresAt
    /\ jwtVerify(resp.id)
    /\ \E m \in DOMAIN authTokens :
        /\ authTokens[m].channel = "MOBILE"
        /\ m < resp.id
        /\ authenticateOutcome(m) = "ok"

(* ------------------------------------------------------------------ *)
(* SpecRevoke: POST /api/auth/logout runs as the sequence of awaited   *)
(* calls it is (the middleware, then findActiveToken and revokeToken   *)
(* of AuthService.logout); the steps of the requests in flight         *)
(* interleave freely with logins, authenticated requests and the       *)
(* clock.                                                              *)
(* ------------------------------------------------------------------ *)
RevokeMaxUsers == 1
RevokeMaxTime == 2

\* The logout requests with token that have succeeded.
Succeeded(token) ==
    {q \in RequestIds : /\ inflight[q].pc = "done"
                        /\ inflight[q].op = "logout"
                        /\ inflight[q].token = token
                        /\ inflight[q].outcome = "ok"}

\* router.post("/logout", authenticate, ...): the middleware runs.  The request
\* remembers whether a logout with its token had succeeded before it was made.
Logout_authenticate(q, token) ==
    /\ inflight[q].pc = "idle"
    /\ LET out == authenticateOutcome(token) IN
       inflight' = [inflight EXCEPT ![q] =
            [pc |-> IF out = "ok" THEN "logout.findActiveToken" ELSE "done",
             op |-> "logout", token |-> token, later |-> Succeeded(token) # {},
             outcome |-> out]]
    /\ UNCHANGED <<db, resp, authVars>>

\* logout: const stored = await this.authRepository.findActiveToken(token)
Logout_findActiveToken(q) ==
    /\ inflight[q].pc = "logout.findActiveToken"
    /\ IF inflight[q].token \notin DOMAIN authTokens
       THEN Finished(q, "Unauthorized")
       ELSE IF authTokens[inflight[q].token].revokedAt # Undefined
       THEN Finished(q, "Unauthorized")
       ELSE Advance(q, "logout.revokeToken")
    /\ UNCHANGED <<db, resp, authVars>>

\* logout: await this.authRepository.revokeToken(token)
Logout_revokeToken(q) ==
    /\ inflight[q].pc = "logout.revokeToken"
    /\ IF inflight[q].token \notin DOMAIN authTokens
       THEN /\ Finished(q, "InternalError")
            /\ UNCHANGED <<db, resp, authVars>>
       ELSE /\ authTokens' = [authTokens EXCEPT ![inflight[q].token].revokedAt = now]
            /\ Finished(q, "ok")
            /\ UNCHANGED <<db, resp, passwordResets, jwts, now, env, outbox, accounts>>

NextRevoke ==
    \/ Deliver
    \/ now < RevokeMaxTime /\ Tick
    \/ nextId.user < RevokeMaxUsers /\ createUser(TRUE, Signup(nextId.user + 1))
    \/ \E u \in UserIds : deleteUser(u)
    \/ \E u \in UserIds, ch \in TokenChannel, s \in Seconds : login(u, TRUE, TRUE, ch, s)
    \/ \E t \in TokenIds : authenticate(t)
    \/ \E q \in RequestIds, t \in DOMAIN jwts : Logout_authenticate(q, t)
    \/ \E q \in RequestIds : Logout_findActiveToken(q)
    \/ \E q \in RequestIds : Logout_revokeToken(q)

SpecRevoke == Init /\ [][NextRevoke]_vars

\* C16. Revocation: once a logout with a token has succeeded, every
\* authenticated request made with the token is refused with Unauthorized and
\* every logout made with it afterwards fails with Unauthorized; of all the
\* logout calls made with one token at most one succeeds; the revokedAt of a
\* stored row, once set, stays set, and no other column of a token row ever
\* changes.
C16_Revocation ==
    [][/\ \A t \in TokenIds :
            /\ Cardinality(Succeeded(t))' <= 1
            /\ Succeeded(t)' # {} => authenticateOutcome(t)' = "Unauthorized"
       /\ (resp = Idle /\ resp'.op = "authenticate")
          => resp'.outcome = authenticateOutcome(resp'.id)
       /\ \A q \in RequestIds :
            (inflight'[q].pc = "done" /\ inflight'[q].later)
            => inflight'[q].outcome = "Unauthorized"
       /\ \A t \in DOMAIN authTokens \cap DOMAIN authTokens' :
            /\ authTokens[t].revokedAt # Undefined => authTokens'[t].revokedAt # Undefined
            /\ authTokens'[t] = [authTokens[t] EXCEPT !.revokedAt = authTokens'[t].revokedAt]
      ]_vars

(* ------------------------------------------------------------------ *)
(* SpecReset: AuthService.resetPassword runs as the sequence of        *)
(* awaited calls it is: findPasswordReset and the checks, then         *)
(* updateUserPassword and markPasswordResetAsUsed, which Promise.all   *)
(* starts together and which complete in either order.  The steps of   *)
(* the requests in flight interleave freely with the clock.            *)
(* ------------------------------------------------------------------ *)
ResetMaxUsers == 1

ResetIds == 1..MaxResets

NewPasswords == {2, 3}

\* The resetPassword requests with reset token r that have succeeded.
ResetSucceeded(r) ==
    {q \in RequestIds : /\ inflight[q].pc = "done"
                        /\ inflight[q].op = "resetPassword"
                        /\ inflight[q].token = r
                        /\ inflight[q].outcome = "ok"}

\* The window of reset token r has passed.
ResetExpired(r) == r \in DOMAIN passwordResets /\ passwordResets[r].expiresAt < now

\* resetPassword: findPasswordReset and the three checks.  The request remembers
\* whether it was made after a success or after the expiry of its token.
Reset_findPasswordReset(q, token, newPassword) ==
    /\ inflight[q].pc = "idle"
    /\ LET out == IF token \notin DOMAIN passwordResets THEN "BadRequest"
                  ELSE IF passwordResets[token].usedAt # Undefined THEN "BadRequest"
                  ELSE IF passwordResets[token].expiresAt < now THEN "BadRequest"
                  ELSE "ok" IN
       inflight' = [inflight EXCEPT ![q] =
            [pc |-> IF out = "ok" THEN "resetPassword.write" ELSE "done",
             op |-> "resetPassword", token |-> token, newPassword |-> newPassword,
             userId |-> IF out = "ok" THEN passwordResets[token].userId ELSE NULL,
             later |-> ResetSucceeded(token) # {} \/ ResetExpired(token),
             pending |-> {"updateUserPassword", "markPasswordResetAsUsed"},
             outcome |-> out]]
    /\ UNCHANGED <<db, resp, authVars>>

\* One of the two calls of Promise.all completes; the request ends when both have
\* (with the data-store error of one that failed, if any).
Settle(q, call, ok) ==
    inflight' = [inflight EXCEPT ![q] =
        [@ EXCEPT !.pending = @ \ {call},
                  !.outcome = IF ok THEN @ ELSE "InternalError",
                  !.pc = IF inflight[q].pending = {call} THEN "done" ELSE @]]

\* this.authRepository.updateUserPassword(reset.userId, hashedPassword)
Reset_updateUserPassword(q) ==
    /\ inflight[q].pc = "resetPassword.write"
    /\ "updateUserPassword" \in inflight[q].pending
    /\ IF inflight[q].userId \notin DOMAIN accounts
       THEN /\ Settle(q, "updateUserPassword", FALSE)
            /\ UNCHANGED <<db, resp, authVars>>
       ELSE /\ accounts' = [accounts EXCEPT
                    ![inflight[q].userId].password = bcryptHash(inflight[q].newPassword)]
            /\ Settle(q, "updateUserPassword", TRUE)
            /\ UNCHANGED <<db, resp, authTokens, passwordResets, jwts, now, env, outbox>>

\* this.authRepository.markPasswordResetAsUsed(reset.id)
Reset_markPasswordResetAsUsed(q) ==
    /\ inflight[q].pc = "resetPassword.write"
    /\ "markPasswordResetAsUsed" \in inflight[q].pending
    /\ IF inflight[q].token \notin DOMAIN passwordResets
       THEN /\ Settle(q, "markPasswordResetAsUsed", FALSE)
            /\ UNCHANGED <<db, resp, authVars>>
       ELSE /\ passwordResets' = [passwordResets EXCEPT ![inflight[q].token].usedAt = now]
            /\ Settle(q, "markPasswordResetAsUsed", TRUE)
            /\ UNCHANGED <<db, resp, authTokens, jwts, now, env, outbox, accounts>>

NextReset ==
    \/ Deliver
    \/ Tick
    \/ nextId.user < ResetMaxUsers /\ createUser(TRUE, Signup(nextId.user + 1))
    \/ \E u \in UserIds : deleteUser(u)
    \/ \E u \in UserIds : forgotPassword(u, TRUE)
    \/ \E q \in RequestIds, r \in ResetIds, p \in NewPasswords :
            Reset_findPasswordReset(q, r, p)
    \/ \E q \in RequestIds : Reset_updateUserPassword(q)
    \/ \E q \in RequestIds : Reset_markPasswordResetAsUsed(q)

SpecReset == Init /\ [][NextReset]_vars

\* C17. Password-reset single use: of all the resetPassword calls made with
\* one reset token, in sequence or interleaved, at most one succeeds; a call
\* that succeeds found usedAt unset and expiresAt not yet passed; a call made
\* after a success or after the expiry of the token fails with BadRequest and
\* does not change the password of the user.
C17_ResetSingleUse ==
    [][/\ \A r \in ResetIds : Cardinality(ResetSucceeded(r))' <= 1
       /\ \A q \in RequestIds :
            /\ (inflight[q].pc = "idle" /\ inflight'[q].pc = "resetPassword.write")
               => /\ passwordResets[inflight'[q].token].usedAt = Undefined
                  /\ passwordResets[inflight'[q].token].expiresAt >= now
            /\ (inflight'[q].pc = "done" /\ inflight'[q].op = "resetPassword"
                /\ inflight'[q].later)
               => inflight'[q].outcome = "BadRequest"
            /\ (inflight'[q] # inflight[q] /\ inflight'[q].later) => accounts' = accounts
      ]_vars

(* ------------------------------------------------------------------ *)
(* SpecForgot: forgotPassword is called with the addresses of stored,  *)
(* deleted and never registered users, with well-formed and malformed  *)
(* payloads, while the clock runs.                                     *)
(* ------------------------------------------------------------------ *)
NextForgot ==
    \/ Deliver
    \/ Tick
    \/ createUser(TRUE, Signup(nextId.user + 1))
    \/ \E u \in UserIds : deleteUser(u)
    \/ \E u \in UserIds, wf \in BOOLEAN : forgotPassword(u, wf)

SpecForgot == Init /\ [][NextForgot]_vars

Emails == {1, 2}
Documents == {1, 2}

\* The parsed payloads of createUserSchema: an individual has a cpf and no cnpj,
\* a company a cnpj and no cpf.
SignupPayloads ==
    {[email |-> e, password |-> 1, userType |-> "INDIVIDUAL", cpf |-> d, cnpj |-> NULL] : e \in Emails, d \in Documents}
    \cup
    {[email |-> e, password |-> 1, userType |-> "COMPANY", cpf |-> NULL, cnpj |-> d] : e \in Emails, d \in Documents}

\* A data store without the index.
users_email_key_Off(email, id) == TRUE

\* CREATE UNIQUE INDEX users_email_key: no row other than id has the address.
users_email_key(email, id) == \A u \in DOMAIN accounts : u = id \/ accounts[u].email # email

\* CREATE UNIQUE INDEX users_cpf_key, users_cnpj_key: no stored row has the cpf,
\* or the cnpj, of the row to insert; NULL equals nothing.
users_document_keys(cpf, cnpj) ==
    \A u \in DOMAIN accounts :
        /\ cpf # NULL => accounts[u].cpf # cpf
        /\ cnpj # NULL => accounts[u].cnpj # cnpj

\* UserService.updateUser: email is the address of the payload, NULL when the
\* payload has none.
updateUser(id, wf, email) ==
    /\ resp = Idle
    /\ LET out == FirstFailure(<<
                IF id \in DOMAIN accounts THEN "ok" ELSE "NotFound",
                IF wf THEN "ok" ELSE "Validation",
                IF id \in DOMAIN accounts /\ email # NULL /\ email # accounts[id].email
                   /\ findByEmail(email) # {}
                THEN "Conflict" ELSE "ok">>) IN
       IF out # "ok"
       THEN NoWrite(Reply("updateUser", id, NULL, NULL, NULL, id, out, {}))
       ELSE /\ accounts' = [accounts EXCEPT ![id].email = IF email # NULL THEN email ELSE @]
            /\ resp' = Reply("updateUser", id, NULL, NULL, NULL, id, "ok", {<<"user", id>>})
            /\ UNCHANGED <<db, inflight, authTokens, passwordResets, jwts, now, env, outbox>>

\* createUser: const existingEmail = await this.userRepository.findByEmail(data.email)
Signup_findByEmail(q, data) ==
    /\ inflight[q].pc = "idle"
    /\ LET out == IF findByEmail(data.email) # {} THEN "Conflict" ELSE "ok" IN
       inflight' = [inflight EXCEPT ![q] =
            [pc |-> IF out = "ok" THEN "createUser.findByDocument" ELSE "done",
             op |-> "createUser", data |-> data, id |-> NULL, outcome |-> out]]
    /\ UNCHANGED <<db, resp, authVars>>

\* createUser: await this.userRepository.findByCpf(data.cpf), or findByCnpj(data.cnpj)
Signup_findByDocument(q) ==
    /\ inflight[q].pc = "createUser.findByDocument"
    /\ LET data == inflight[q].data IN
       IF \/ data.userType = "INDIVIDUAL" /\ data.cpf # NULL /\ findByCpf(data.cpf) # {}
          \/ data.userType = "COMPANY" /\ data.cnpj # NULL /\ findByCnpj(data.cnpj) # {}
       THEN Finished(q, "Conflict")
       ELSE Advance(q, "createUser.create")
    /\ UNCHANGED <<db, resp, authVars>>

\* createUser: bcrypt.hash; return this.userRepository.create({ ...data, password })
Signup_create(q) ==
    /\ inflight[q].pc = "createUser.create"
    /\ LET data == inflight[q].data IN
       IF ~(users_email_key(data.email, NULL) /\ users_document_keys(data.cpf, data.cnpj))
       THEN /\ Finished(q, "InternalError")
            /\ UNCHANGED <<db, resp, authVars>>
       ELSE /\ nextId.user < MaxUsers
            /\ LET id == nextId.user + 1 IN
               /\ users' = users \cup {id}
               /\ accounts' = Insert(accounts, id,
                      [email |-> data.email, password |-> bcryptHash(data.password),
                       userType |-> data.userType, cpf |-> data.cpf, cnpj |-> data.cnpj])
               /\ nextId' = [nextId EXCEPT !.user = id]
               /\ inflight' = [inflight EXCEPT ![q] =
                      [@ EXCEPT !.pc = "done", !.outcome = "ok", !.id = id]]
            /\ UNCHANGED <<distributors, properties, areas, devices, consumptions, resp,
                           authTokens, passwordResets, jwts, now, env, outbox>>

NextIdentity ==
    \/ Deliver
    \/ \E data \in SignupPayloads, wf \in BOOLEAN : createUser(wf, data)
    \/ \E u \in UserIds, wf \in BOOLEAN, e \in Emails \cup {NULL} : updateUser(u, wf, e)
    \/ \E u \in UserIds : deleteUser(u)
    \/ \E q \in RequestIds, data \in SignupPayloads : Signup_findByEmail(q, data)
    \/ \E q \in RequestIds : Signup_findByDocument(q)
    \/ \E q \in RequestIds : Signup_create(q)

SpecIdentity == Init /\ [][NextIdentity]_vars

\* A stored user holds the e-mail address, the CPF or the CNPJ of the payload.
IdentityHeld(data) ==
    \E u \in DOMAIN accounts :
        \/ accounts[u].email = data.email
        \/ data.cpf # NULL /\ accounts[u].cpf = data.cpf
        \/ data.cnpj # NULL /\ accounts[u].cnpj = data.cnpj

\* C19. Identity uniqueness: createUser answers Conflict and stores nothing
\* when a stored user holds the e-mail address, the CPF or the CNPJ of the
\* payload, and stores the user otherwise; updateUser answers Conflict and
\* stores nothing when it would change the address to one that another user
\* holds; after every step, under any interleaving of the steps of concurrent
\* signups, no two stored users have the same e-mail address, the same CPF or
\* the same CNPJ.
C19_IdentityUniqueness ==
    [][/\ \A data \in SignupPayloads :
            createUser(TRUE, data)
            => IF IdentityHeld(data)
               THEN resp'.outcome = "Conflict" /\ accounts' = accounts /\ users' = users
               ELSE /\ resp'.outcome = "ok"
                    /\ resp'.id \in DOMAIN accounts' \ DOMAIN accounts
                    /\ accounts'[resp'.id].email = data.email
       /\ \A u \in DOMAIN accounts, e \in Emails :
            (/\ updateUser(u, TRUE, e)
             /\ \E o \in DOMAIN accounts : o # u /\ accounts[o].email = e)
            => resp'.outcome = "Conflict" /\ accounts' = accounts
       /\ \A x, y \in DOMAIN accounts' :
            x # y => /\ accounts'[x].email # accounts'[y].email
                     /\ accounts'[x].cpf = NULL \/ accounts'[x].cpf # accounts'[y].cpf
                     /\ accounts'[x].cnpj = NULL \/ accounts'[x].cnpj # accounts'[y].cnpj
      ]_vars

\* Two concurrent signups with one e-mail address and different documents both
\* found the address free; the first stored its user and the second was
\* refused by the data store.
C19_Witness ==
    \E q1, q2 \in RequestIds :
        /\ inflight[q1].pc = "done" /\ inflight[q2].pc = "done"
        /\ inflight[q1].outcome = "ok" /\ inflight[q2].outcome = "InternalError"
        /\ inflight[q1].data.email = inflight[q2].data.email
        /\ inflight[q1].data.cpf # inflight[q2].data.cpf
        /\ inflight[q1].id \in DOMAIN accounts

(* ------------------------------------------------------------------ *)
(* SpecDevicePath: one user with one distributor and one property      *)
(* creates two areas and up to two devices in them; findById, update   *)
(* (with well-formed and malformed bodies) and delete are called with  *)
(* every combination of device id and area id.                         *)
(* ------------------------------------------------------------------ *)
PathMaxUsers == 1
PathMaxDistributors == 1
PathMaxProperties == 1

NextDevicePath ==
    \/ Deliver
    \/ nextId.user < PathMaxUsers /\ createUser(TRUE, Signup(nextId.user + 1))
    \/ \E u \in UserIds :
            nextId.distributor < PathMaxDistributors
            /\ Distributor_create(u, TRUE, "c1", 20, Undefined, Undefined)
    \/ \E u \in UserIds, d \in DistributorIds :
            nextId.property < PathMaxProperties /\ Property_create(u, TRUE, d, "n1")
    \/ \E u \in UserIds, p \in PropertyIds : Area_create(p, u, TRUE, "n1")
    \/ \E u \in UserIds, p \in PropertyIds, a \in AreaIds : Device_create(a, p, u, TRUE, "n1")
    \/ \E u \in UserIds, p \in PropertyIds, a \in AreaIds, d \in DeviceIds :
            Device_findById(d, a, p, u)
    \/ \E u \in UserIds, p \in PropertyIds, a \in AreaIds, d \in DeviceIds, wf \in BOOLEAN :
            Device_update(d, a, p, u, wf, "n2")
    \/ \E u \in UserIds, p \in PropertyIds, a \in AreaIds, d \in DeviceIds :
            Device_delete(d, a, p, u)

SpecDevicePath == Init /\ [][NextDevicePath]_vars

\* Response r is for a device stored in one area and requested under another
\* area of the same property, which the requester owns.
SiblingAreaRequest(r) ==
    /\ r.op \in DeviceByIdOps
    /\ PropertyOwned(r)
    /\ AreaMatches(r)
    /\ DeviceMismatch(r)
    /\ areas[devices[r.deviceId].areaId].propertyId = r.propertyId

\* C20. A findById, update or delete of DeviceService for a device that is
\* stored in area A and is requested under another area B of the same property,
\* owned by the requester, fails with Forbidden, returns no device and leaves
\* every stored row as it was, whatever the body of the update is.
C20_DevicePathMismatch ==
    [][(Handled(DeviceByIdOps) /\ SiblingAreaRequest(resp'))
         => /\ resp'.outcome = "Forbidden"
            /\ resp'.ret = {}
            /\ UNCHANGED db]_vars

\* An update of a device was requested under the sibling area of the area that
\* holds it and was answered Forbidden; the device is stored with its first name.
C20_Witness ==
    /\ resp.op = "Device.update"
    /\ SiblingAreaRequest(resp)
    /\ resp.outcome = "Forbidden"
    /\ devices[resp.deviceId].name = "n1"

(* ------------------------------------------------------------------ *)
(* SpecListing: one user with one distributor and one property, one    *)
(* area in it and one device in the area; up to two records of two     *)
(* period kinds and two reference dates are created at the three       *)
(* levels, and the three listings are called with and without a        *)
(* period filter.                                                      *)
(* ------------------------------------------------------------------ *)
ListingMaxUsers == 1
ListingMaxDistributors == 1
ListingMaxProperties == 1
ListingMaxChildren == 1
ListingMaxRecords == 2

\* listConsumptionQuerySchema: the period filter, absent or one period kind.
PeriodFilters == PeriodKinds \cup {NoName}

NextListing ==
    \/ Deliver
    \/ nextId.user < ListingMaxUsers /\ createUser(TRUE, Signup(nextId.user + 1))
    \/ \E u \in UserIds :
            nextId.distributor < ListingMaxDistributors
            /\ Distributor_create(u, TRUE, "c1", 20, Undefined, Undefined)
    \/ \E u \in UserIds, d \in DistributorIds :
            nextId.property < ListingMaxProperties /\ Property_create(u, TRUE, d, "n1")
    \/ \E u \in UserIds, p \in PropertyIds :
            nextId.area < ListingMaxChildren /\ Area_create(p, u, TRUE, "n1")
    \/ \E u \in UserIds, p \in PropertyIds, a \in AreaIds :
            nextId.device < ListingMaxChildren /\ Device_create(a, p, u, TRUE, "n1")
    \/ \E u \in UserIds, p \in PropertyIds, period \in PeriodKinds, date \in Dates :
            nextId.record < ListingMaxRecords
            /\ createForProperty(p, u, TRUE, period, date, 1, NoName)
    \/ \E u \in UserIds, p \in PropertyIds, a \in AreaIds, period \in PeriodKinds,
          date \in Dates :
            nextId.record < ListingMaxRecords
            /\ createForArea(a, p, u, TRUE, period, date, 1, NoName)
    \/ \E u \in UserIds, p \in PropertyIds, a \in AreaIds, d \in DeviceIds,
          period \in PeriodKinds, date \in Dates :
            nextId.record < ListingMaxRecords
            /\ createForDevice(d, a, p, u, TRUE, period, date, 1, NoName)
    \/ \E u \in UserIds, p \in PropertyIds, f \in PeriodFilters : findAllForProperty(p, u, f)
    \/ \E u \in UserIds, p \in PropertyIds, a \in AreaIds, f \in PeriodFilters :
            findAllForArea(a, p, u, f)
    \/ \E u \in UserIds, p \in PropertyIds, a \in AreaIds, d \in DeviceIds,
          f \in PeriodFilters :
            findAllForDevice(d, a, p, u, f)

SpecListing == Init /\ [][NextListing]_vars

\* The stored records attached to the node itself, of the period kind of the
\* filter when one is given.
RecordsAt(column, node, filter) ==
    {r \in DOMAIN consumptions :
        /\ consumptions[r][column] = node
        /\ filter # NoName => consumptions[r].period = filter}

\* The returned array holds exactly the rows of the set, each once, with the
\* later reference dates first.
ListsExactly(ret, rows) ==
    /\ {item[2] : item \in ret} = rows
    /\ {item[3] : item \in ret} = 1..Cardinality(rows)
    /\ Cardinality(ret) = Cardinality(rows)
    /\ \A x, y \in ret :
            x[3] < y[3] => consumptions[x[2]].referenceDate >= consumptions[y[2]].referenceDate

\* C21. Listing: a findAllForProperty, findAllForArea or findAllForDevice that
\* succeeds returns exactly the stored records whose own target column is the
\* named property, area or device and, when a period filter is given, whose
\* period is the filter; the array is ordered by referenceDate descending;
\* records of other nodes, the children of the named node included, are not in it.
C21_Listing ==
    [][(Handled(ConsumptionOps) /\ resp'.outcome = "ok") =>
         \A u \in UserIds, p \in PropertyIds, f \in PeriodFilters :
            /\ findAllForProperty(p, u, f)
                    => ListsExactly(resp'.ret, RecordsAt("propertyId", p, f))
            /\ \A a \in AreaIds :
                    findAllForArea(a, p, u, f)
                        => ListsExactly(resp'.ret, RecordsAt("areaId", a, f))
            /\ \A a \in AreaIds, d \in DeviceIds :
                    findAllForDevice(d, a, p, u, f)
                        => ListsExactly(resp'.ret, RecordsAt("deviceId", d, f))]_vars

\* The listing of the area without a filter returned the two records of the
\* area, of different period kinds, the one of the later date first.
C21_Witness ==
    /\ resp.op = "findAllForArea"
    /\ resp.outcome = "ok"
    /\ Cardinality(resp.ret) = 2
    /\ \E x, y \in resp.ret :
            /\ x[3] = 1 /\ y[3] = 2
            /\ consumptions[x[2]].referenceDate > consumptions[y[2]].referenceDate
            /\ consumptions[x[2]].period # consumptions[y[2]].period

(* ------------------------------------------------------------------ *)
(* SpecLists: two users create distributors, properties, areas and     *)
(* devices (two of each at most) and call the four findAll handlers    *)
(* with every user, property and area id.                              *)
(* ------------------------------------------------------------------ *)
NextLists ==
    \/ Deliver
    \/ createUser(TRUE, Signup(nextId.user + 1))
    \/ \E u \in UserIds : Distributor_create(u, TRUE, "c1", 20, Undefined, Undefined)
    \/ \E u \in UserIds, d \in DistributorIds : Property_create(u, TRUE, d, "n1")
    \/ \E u \in UserIds, p \in PropertyIds : Area_create(p, u, TRUE, "n1")
    \/ \E u \in UserIds, p \in PropertyIds, a \in AreaIds : Device_create(a, p, u, TRUE, "n1")
    \/ \E u \in UserIds : Distributor_findAll(u)
    \/ \E u \in UserIds : Property_findAll(u)
    \/ \E u \in UserIds, p \in PropertyIds : Area_findAll(p, u)
    \/ \E u \in UserIds, p \in PropertyIds, a \in AreaIds : Device_findAll(a, p, u)

SpecLists == Init /\ [][NextLists]_vars

FindAllOps == {"Distributor.findAll", "Property.findAll", "Area.findAll", "Device.findAll"}

\* C22. List isolation: PropertyService.findAll(u) and DistributorService.findAll(u)
\* return exactly the properties / distributors whose userId is u;
\* AreaService.findAll, when it succeeds, returns exactly the areas whose
\* propertyId is the named property, and DeviceService.findAll exactly the
\* devices whose areaId is the named area; nothing of another user or of
\* another parent is returned.
C22_ListIsolation ==
    [][Handled(FindAllOps) =>
         LET r == resp' IN
         /\ r.op = "Distributor.findAll"
                => /\ r.outcome = "ok"
                   /\ r.ret = {<<"distributor", d>> : d \in
                                {x \in DOMAIN distributors : distributors[x].userId = r.userId}}
         /\ r.op = "Property.findAll"
                => /\ r.outcome = "ok"
                   /\ r.ret = {<<"property", p>> : p \in
                                {x \in DOMAIN properties : properties[x].userId = r.userId}}
         /\ (r.op = "Area.findAll" /\ r.outcome = "ok")
                => r.ret = {<<"area", a>> : a \in
                                {x \in DOMAIN areas : areas[x].propertyId = r.propertyId}}
         /\ (r.op = "Device.findAll" /\ r.outcome = "ok")
                => r.ret = {<<"device", v>> : v \in
                                {x \in DOMAIN devices : devices[x].areaId = r.areaId}}
         /\ \A item \in r.ret : OwnerOf(item) = r.userId]_vars

\* AreaService.findAll returned the one area of a property while the same user
\* holds another property with an area of its own.
C22_Witness ==
    /\ resp.op = "Area.findAll"
    /\ resp.outcome = "ok"
    /\ Cardinality(resp.ret) = 1
    /\ \E a \in DOMAIN areas :
            /\ areas[a].propertyId # resp.propertyId
            /\ OwnerOfArea(a) = resp.userId

(* ------------------------------------------------------------------ *)
(* Consumption records addressed by id under a property path.          *)
(* ------------------------------------------------------------------ *)
\* Response r names a stored record whose root property is not the property of
\* the path.
RecordOfOtherProperty(r) ==
    /\ r.op \in ConsumptionByIdOps
    /\ r.id \in DOMAIN consumptions
    /\ RootOfRecord(r.id) # r.propertyId

\* C23. Record-to-property binding: ConsumptionService.findById, update and
\* delete called with (id, propertyId, userId) for a record that is attached to
\* another property than propertyId, or to an area or device of another
\* property, do not succeed, return nothing and leave the record as it is.
C23_RecordBinding ==
    [][(Handled(ConsumptionByIdOps) /\ RecordOfOtherProperty(resp'))
         => /\ resp'.outcome # "ok"
            /\ resp'.ret = {}
            /\ consumptions' = consumptions]_vars

(* ------------------------------------------------------------------ *)
(* SpecProvenance: one user with two distributors of different prices  *)
(* and two properties, one area; records are created on properties and *)
(* on the area, and updated through the path of either property.       *)
(* ------------------------------------------------------------------ *)
ProvenanceMaxUsers == 1
ProvenanceMaxAreas == 1
ProvenanceMaxRecords == 1

NextProvenance ==
    \/ Deliver
    \/ nextId.user < ProvenanceMaxUsers /\ createUser(TRUE, Signup(nextId.user + 1))
    \/ \E u \in UserIds, c \in Cnpjs, price \in PriceInputs :
            Distributor_create(u, TRUE, c, price, Undefined, Undefined)
    \/ \E u \in UserIds, d \in DistributorIds : Property_create(u, TRUE, d, "n1")
    \/ \E u \in UserIds, p \in PropertyIds :
            nextId.area < ProvenanceMaxAreas /\ Area_create(p, u, TRUE, "n1")
    \/ \E u \in UserIds, p \in PropertyIds, k \in KwhValues :
            nextId.record < ProvenanceMaxRecords
            /\ createForProperty(p, u, TRUE, "DAILY", 1, k, NoName)
    \/ \E u \in UserIds, p \in PropertyIds, a \in AreaIds, k \in KwhValues :
            nextId.record < ProvenanceMaxRecords
            /\ createForArea(a, p, u, TRUE, "DAILY", 1, k, NoName)
    \/ \E u \in UserIds, p \in PropertyIds, r \in RecordIds, k \in UpdateKwhValues,
          n \in Notes :
            Consumption_update(r, p, u, TRUE, k, n)

SpecProvenance == Init /\ [][NextProvenance]_vars

\* The step stores record r anew or stores another kwhConsumed or costBrl on it.
CostWritten(r) ==
    \/ r \notin DOMAIN consumptions
    \/ consumptions'[r].kwhConsumed # consumptions[r].kwhConsumed
    \/ consumptions'[r].costBrl # consumptions[r].costBrl

\* C24. Cost provenance: whenever a create at any level or an update through
\* any property path stores a kwhConsumed or a costBrl on a record, the stored
\* costBrl is the stored kwhConsumed times the kwhPrice that the distributor of
\* the record's own root property (the property itself, or the property of its
\* area or of its device's area) holds at that moment; so in every reachable
\* state each cost stems from the price of the record's own property.
C24_CostProvenance ==
    [][\A r \in DOMAIN consumptions' :
            CostWritten(r) =>
                consumptions'[r].costBrl =
                    consumptions'[r].kwhConsumed * (CurrentPrice(RootOfRecord(r)))']_vars

(* ------------------------------------------------------------------ *)
(* Updates with the request body as an object.  safeParse of a         *)
(* z.object keeps the keys of the schema and drops every other key of  *)
(* the input; the repository writes the keys that are left.            *)
(* ------------------------------------------------------------------ *)
\* The update schemas: the keys they declare, each with the values it accepts.
updateAreaSchema == [name |-> Names]

updateDeviceSchema == [name |-> Names]

updatePropertySchema == [distributorId |-> DistributorIds, name |-> Names]

updateDistributorSchema == [kwhPrice |-> PriceInputs]

updateUserSchema == [email |-> Emails]

updateConsumptionSchema == [kwhConsumed |-> KwhValues, notes |-> {"note"}]

\* schema.safeParse(input).success
safeParseSuccess(schema, input) ==
    \A k \in DOMAIN input \cap DOMAIN schema : input[k] \in schema[k]

\* A schema that hands every key of the input on.
safeParseData_Passthrough(schema, input) == input

\* schema.safeParse(input).data: the declared keys that the input carries.
safeParseData(schema, input) == [k \in DOMAIN input \cap DOMAIN schema |-> input[k]]

\* prisma.<model>.update({ where: { id }, data }): the columns named in data
\* take its values.
prismaUpdate(row, data) ==
    [c \in DOMAIN row |-> IF c \in DOMAIN data THEN data[c] ELSE row[c]]

Area_updateInput(id, propertyId, userId, input) ==
    /\ resp = Idle
    /\ LET out == FirstFailure(<<Area_check(id, propertyId, userId),
                                 IF safeParseSuccess(updateAreaSchema, input)
                                 THEN "ok" ELSE "Validation">>) IN
       IF out # "ok"
       THEN NoWrite(Reply("Area.update", userId, propertyId, id, NULL, id, out, {}))
       ELSE /\ areas' = [areas EXCEPT
                    ![id] = prismaUpdate(@, safeParseData(updateAreaSchema, input))]
            /\ resp' = Reply("Area.update", userId, propertyId, id, NULL, id, "ok",
                             {<<"area", id>>})
            /\ UNCHANGED <<users, distributors, properties, devices, consumptions,
                           nextId, inflight, authVars>>

Device_updateInput(id, areaId, propertyId, userId, input) ==
    /\ resp = Idle
    /\ LET out == FirstFailure(<<Device_check(id, areaId, propertyId, userId),
                                 IF safeParseSuccess(updateDeviceSchema, input)
                                 THEN "ok" ELSE "Validation">>) IN
       IF out # "ok"
       THEN NoWrite(Reply("Device.update", userId, propertyId, areaId, id, id, out, {}))
       ELSE /\ devices' = [devices EXCEPT
                    ![id] = prismaUpdate(@, safeParseData(updateDeviceSchema, input))]
            /\ resp' = Reply("Device.update", userId, propertyId, areaId, id, id, "ok",
                             {<<"device", id>>})
            /\ UNCHANGED <<users, distributors, properties, areas, consumptions,
                           nextId, inflight, authVars>>

Property_updateInput(id, requestingUserId, input) ==
    /\ resp = Idle
    /\ LET data == safeParseData(updatePropertySchema, input)
           out == FirstFailure(<<Property_check(id, requestingUserId),
                                 IF safeParseSuccess(updatePropertySchema, input)
                                 THEN "ok" ELSE "Validation",
                                 IF "distributorId" \in DOMAIN data
                                 THEN validateDistributorOwnership(data.distributorId,
                                                                   requestingUserId)
                                 ELSE "ok">>) IN
       IF out # "ok"
       THEN NoWrite(Reply("Property.update", requestingUserId, id, NULL, NULL, id, out, {}))
       ELSE /\ properties' = [properties EXCEPT ![id] = prismaUpdate(@, data)]
            /\ resp' = Reply("Property.update", requestingUserId, id, NULL, NULL, id,
                             "ok", {<<"property", id>>})
            /\ UNCHANGED <<users, distributors, areas, devices, consumptions, nextId,
                           inflight, authVars>>

\* The kwhPrice of the data as the Decimal(10, 6) column stores it.
DistributorColumns(data) ==
    [k \in DOMAIN data |-> IF k = "kwhPrice" THEN toDecimal6(data[k]) ELSE data[k]]

Distributor_updateInput(id, requestingUserId, input) ==
    /\ resp = Idle
    /\ LET out == FirstFailure(<<Distributor_check(id, requestingUserId),
                                 IF safeParseSuccess(updateDistributorSchema, input)
                                 THEN "ok" ELSE "Validation">>) IN
       IF out # "ok"
       THEN NoWrite(Reply("Distributor.update", requestingUserId, NULL, NULL, NULL, id, out, {}))
       ELSE /\ distributors' = [distributors EXCEPT
                    ![id] = prismaUpdate(@, DistributorColumns(
                                safeParseData(updateDistributorSchema, input)))]
            /\ resp' = Reply("Distributor.update", requestingUserId, NULL, NULL, NULL, id,
                             "ok", {<<"distributor", id>>})
            /\ UNCHANGED <<users, properties, areas, devices, consumptions, nextId,
                           inflight, authVars>>

updateUserInput(id, input) ==
    /\ resp = Idle
    /\ LET data == safeParseData(updateUserSchema, input)
           out == FirstFailure(<<
                IF id \in DOMAIN accounts THEN "ok" ELSE "NotFound",
                IF safeParseSuccess(updateUserSchema, input) THEN "ok" ELSE "Validation",
                IF id \in DOMAIN accounts /\ "email" \in DOMAIN data
                   /\ data.email # accounts[id].email /\ findByEmail(data.email) # {}
                THEN "Conflict" ELSE "ok">>) IN
       IF out # "ok"
       THEN NoWrite(Reply("updateUser", id, NULL, NULL, NULL, id, out, {}))
       ELSE /\ accounts' = [accounts EXCEPT ![id] = prismaUpdate(@, data)]
            /\ resp' = Reply("updateUser", id, NULL, NULL, NULL, id, "ok", {<<"user", id>>})
            /\ UNCHANGED <<db, inflight, authTokens, passwordResets, jwts, now, env, outbox>>

\* data: { ...cleanData, ...(costBrl !== undefined ? { costBrl } : {}) }
WithCostBrl(propertyId, data) ==
    [k \in DOMAIN data \cup (IF "kwhConsumed" \in DOMAIN data THEN {"costBrl"} ELSE {}) |->
        IF k = "costBrl" /\ "kwhConsumed" \in DOMAIN data
        THEN costOf(data.kwhConsumed, kwhPriceOf(propertyId))
        ELSE data[k]]

Consumption_updateInput(id, propertyId, userId, input) ==
    /\ resp = Idle
    /\ LET out == FirstFailure(<<Consumption_check(id, propertyId, userId),
                                 IF safeParseSuccess(updateConsumptionSchema, input)
                                 THEN "ok" ELSE "Validation">>) IN
       IF out # "ok"
       THEN NoWrite(Reply("Consumption.update", userId, propertyId, NULL, NULL, id, out, {}))
       ELSE /\ consumptions' = [consumptions EXCEPT
                    ![id] = prismaUpdate(@, WithCostBrl(propertyId,
                                safeParseData(updateConsumptionSchema, input)))]
            /\ resp' = Reply("Consumption.update", userId, propertyId, NULL, NULL, id,
                             "ok", {<<"record", id>>})
            /\ UNCHANGED <<users, distributors, properties, areas, devices, nextId,
                           inflight, authVars>>

(* ------------------------------------------------------------------ *)
(* SpecFrame: one user builds two distributors, two properties, an     *)
(* area, a device and a record; every update                           *)
(* handler is called with bodies that carry, besides declared fields   *)
(* (well-formed or malformed), keys that the schema does not declare.  *)
(* ------------------------------------------------------------------ *)
FrameMaxUsers == 1
FrameMaxChildren == 1

AreaUpdateBodies ==
    {[propertyId |-> p] : p \in PropertyIds}
        \cup {[name |-> n, propertyId |-> p] : n \in {"n2", NoName}, p \in PropertyIds}

DeviceUpdateBodies ==
    {[areaId |-> a] : a \in AreaIds}
        \cup {[name |-> n, areaId |-> a] : n \in {"n2", NoName}, a \in AreaIds}

PropertyUpdateBodies ==
    {[userId |-> u] : u \in UserIds}
        \cup {[distributorId |-> d, name |-> "n2", userId |-> u] :
                d \in DistributorIds, u \in UserIds}

DistributorUpdateBodies ==
    {[cnpj |-> c, userId |-> u] : c \in Cnpjs, u \in UserIds}
        \cup {[kwhPrice |-> k, cnpj |-> c, userId |-> u] :
                k \in {30, 0}, c \in Cnpjs, u \in UserIds}

UserUpdateBodies ==
    {[userType |-> "COMPANY", cpf |-> c, cnpj |-> c] : c \in Documents}
        \cup {[email |-> e, userType |-> "COMPANY", cpf |-> c, cnpj |-> c] :
                e \in Emails, c \in Documents}

ConsumptionUpdateBodies ==
    {[propertyId |-> 2, areaId |-> 1, deviceId |-> 1, period |-> "MONTHLY",
      referenceDate |-> d] : d \in Dates}
        \cup {[kwhConsumed |-> k, notes |-> "note", propertyId |-> 2, areaId |-> 1,
               deviceId |-> 1, period |-> "MONTHLY", referenceDate |-> d, costBrl |-> 0] :
                k \in {2, 0}, d \in Dates}

NextFrame ==
    \/ Deliver
    \/ nextId.user < FrameMaxUsers /\ createUser(TRUE, Signup(nextId.user + 1))
    \/ \E c \in Cnpjs : Distributor_create(1, TRUE, c, 20, Undefined, Undefined)
    \/ \E d \in DistributorIds : Property_create(1, TRUE, d, "n1")
    \/ \E p \in PropertyIds : nextId.area < FrameMaxChildren /\ Area_create(p, 1, TRUE, "n1")
    \/ \E p \in PropertyIds, a \in AreaIds :
            nextId.device < FrameMaxChildren /\ Device_create(a, p, 1, TRUE, "n1")
    \/ \E p \in PropertyIds :
            nextId.record < FrameMaxChildren
            /\ createForProperty(p, 1, TRUE, "DAILY", 1, 1, NoName)
    \/ \E u \in UserIds, input \in UserUpdateBodies : updateUserInput(u, input)
    \/ \E d \in DistributorIds, input \in DistributorUpdateBodies :
            Distributor_updateInput(d, 1, input)
    \/ \E p \in PropertyIds, input \in PropertyUpdateBodies : Property_updateInput(p, 1, input)
    \/ \E p \in PropertyIds, a \in AreaIds, input \in AreaUpdateBodies :
            Area_updateInput(a, p, 1, input)
    \/ \E p \in PropertyIds, a \in AreaIds, d \in DeviceIds, input \in DeviceUpdateBodies :
            Device_updateInput(d, a, p, 1, input)
    \/ \E p \in PropertyIds, r \in RecordIds, input \in ConsumptionUpdateBodies :
            Consumption_updateInput(r, p, 1, input)

SpecFrame == Init /\ [][NextFrame]_vars

UpdateOps ==
    {"updateUser", "Distributor.update", "Property.update", "Area.update",
     "Device.update", "Consumption.update"}

\* The step keeps every row of table t and the named columns of each.
KeepsColumns(t, columns) ==
    /\ DOMAIN t' = DOMAIN t
    /\ \A id \in DOMAIN t : \A c \in columns : t'[id][c] = t[id][c]

\* C25. Update frame: an update of any service, whatever keys its body carries,
\* removes and adds no row and leaves as stored the target (propertyId, areaId,
\* deviceId), period and referenceDate of every record, the cnpj and userId of
\* every distributor, the userType, cpf and cnpj of every user, the propertyId
\* of every area, the areaId of every device and the userId of every property.
C25_UpdateFrame ==
    [][Handled(UpdateOps) =>
         /\ KeepsColumns(consumptions,
                         {"propertyId", "areaId", "deviceId", "period", "referenceDate"})
         /\ KeepsColumns(distributors, {"cnpj", "userId"})
         /\ KeepsColumns(accounts, {"userType", "cpf", "cnpj"})
         /\ KeepsColumns(areas, {"propertyId"})
         /\ KeepsColumns(devices, {"areaId"})
         /\ KeepsColumns(properties, {"userId"})]_vars

\* An area update whose body carried a name and a propertyId has succeeded: the
\* area has the new name and is stored under the property of the path while
\* another property exists.
C25_Witness ==
    /\ resp.op = "Area.update"
    /\ resp.outcome = "ok"
    /\ areas[resp.id].name = "n2"
    /\ areas[resp.id].propertyId = resp.propertyId
    /\ DOMAIN properties # {resp.propertyId}

(* ------------------------------------------------------------------ *)
(* SpecFailure: two users; every handler of the user, distributor,     *)
(* property, area, device and consumption services is called with      *)
(* well-formed and malformed payloads and with every combination of    *)
(* user and path ids (one distributor, one property, one area, one     *)
(* device and one record at most; a distributor or a record that is   *)
(* stored is also created again).                                      *)
(* ------------------------------------------------------------------ *)
FailureMaxParents == 1
FailureMaxChildren == 1

\* UserService.findById
User_findById(id) ==
    /\ resp = Idle
    /\ NoWrite(IF id \in DOMAIN accounts
               THEN Reply("User.findById", id, NULL, NULL, NULL, id, "ok", {<<"user", id>>})
               ELSE Reply("User.findById", id, NULL, NULL, NULL, id, "NotFound", {}))

NextFailure ==
    \/ Deliver
    \/ \E wf \in BOOLEAN, n \in UserIds : createUser(wf, Signup(n))
    \/ \E u \in UserIds : User_findById(u)
    \/ \E u \in UserIds, wf \in BOOLEAN, e \in Emails : updateUser(u, wf, e)
    \/ \E u \in UserIds : deleteUser(u)
    \/ \E u \in UserIds, wf \in BOOLEAN :
            (nextId.distributor < FailureMaxParents \/ findByUserAndCnpj(u, "c1") # {})
            /\ Distributor_create(u, wf, "c1", 20, Undefined, Undefined)
    \/ \E u \in UserIds : Distributor_findAll(u)
    \/ \E u \in UserIds, d \in DistributorIds : Distributor_findById(d, u)
    \/ \E u \in UserIds, d \in DistributorIds, wf \in BOOLEAN :
            Distributor_update(d, u, wf, 30, Undefined, Undefined)
    \/ \E u \in UserIds, d \in DistributorIds : Distributor_delete(d, u)
    \/ \E u \in UserIds, d \in DistributorIds, wf \in BOOLEAN :
            nextId.property < FailureMaxParents /\ Property_create(u, wf, d, "n1")
    \/ \E u \in UserIds : Property_findAll(u)
    \/ \E u \in UserIds, p \in PropertyIds : Property_findById(p, u)
    \/ \E u \in UserIds, p \in PropertyIds, d \in DistributorInputs, wf \in BOOLEAN :
            Property_update(p, u, wf, d, "n2")
    \/ \E u \in UserIds, p \in PropertyIds : Property_delete(p, u)
    \/ \E u \in UserIds, p \in PropertyIds, wf \in BOOLEAN :
            nextId.area < FailureMaxChildren /\ Area_create(p, u, wf, "n1")
    \/ \E u \in UserIds, p \in PropertyIds, a \in AreaIds : Area_findById(a, p, u)
    \/ \E u \in UserIds, p \in PropertyIds : Area_findAll(p, u)
    \/ \E u \in UserIds, p \in PropertyIds, a \in AreaIds, wf \in BOOLEAN :
            Area_update(a, p, u, wf, "n2")
    \/ \E u \in UserIds, p \in PropertyIds, a \in AreaIds : Area_delete(a, p, u)
    \/ \E u \in UserIds, p \in PropertyIds, a \in AreaIds, wf \in BOOLEAN :
            nextId.device < FailureMaxChildren /\ Device_create(a, p, u, wf, "n1")
    \/ \E u \in UserIds, p \in PropertyIds, a \in AreaIds, d \in DeviceIds :
            Device_findById(d, a, p, u)
    \/ \E u \in UserIds, p \in PropertyIds, a \in AreaIds : Device_findAll(a, p, u)
    \/ \E u \in UserIds, p \in PropertyIds, a \in AreaIds, d \in DeviceIds, wf \in BOOLEAN :
            Device_update(d, a, p, u, wf, "n2")
    \/ \E u \in UserIds, p \in PropertyIds, a \in AreaIds, d \in DeviceIds :
            Device_delete(d, a, p, u)
    \/ \E u \in UserIds, p \in PropertyIds, wf \in BOOLEAN :
            (\/ nextId.record < FailureMaxChildren
             \/ findByTargetAndPeriod(PropertyTarget(p), "DAILY", 1) # {})
            /\ createForProperty(p, u, wf, "DAILY", 1, 1, NoName)
    \/ \E u \in UserIds, p \in PropertyIds, a \in AreaIds, wf \in BOOLEAN :
            nextId.record < FailureMaxChildren
            /\ createForArea(a, p, u, wf, "DAILY", 1, 1, NoName)
    \/ \E u \in UserIds, p \in PropertyIds, a \in AreaIds, d \in DeviceIds, wf \in BOOLEAN :
            nextId.record < FailureMaxChildren
            /\ createForDevice(d, a, p, u, wf, "DAILY", 1, 1, NoName)
    \/ \E u \in UserIds, p \in PropertyIds : findAllForProperty(p, u, NoName)
    \/ \E u \in UserIds, p \in PropertyIds, a \in AreaIds : findAllForArea(a, p, u, NoName)
    \/ \E u \in UserIds, p \in PropertyIds, a \in AreaIds, d \in DeviceIds :
            findAllForDevice(d, a, p, u, NoName)
    \/ \E u \in UserIds, p \in PropertyIds, r \in RecordIds : Consumption_findById(r, p, u)
    \/ \E u \in UserIds, p \in PropertyIds, r \in RecordIds, wf \in BOOLEAN :
            Consumption_update(r, p, u, wf, 2, "note")
    \/ \E u \in UserIds, p \in PropertyIds, r \in RecordIds : Consumption_delete(r, p, u)

SpecFailure == Init /\ [][NextFailure]_vars

FailureOutcomes == {"Validation", "NotFound", "Forbidden", "Conflict"}

\* C26. Failed operations have no effect: a handler of the user, distributor,
\* property, area, device or consumption service that ends with Validation,
\* NotFound, Forbidden or Conflict leaves every stored user, distributor,
\* property, area, device and consumption record exactly as it was.
C26_FailedNoEffect ==
    [][(resp = Idle /\ resp' # Idle /\ resp'.outcome \in FailureOutcomes)
         => UNCHANGED <<users, accounts, distributors, properties, areas, devices,
                        consumptions>>]_vars

\* A consumption update with a malformed body for a stored record under the
\* property that holds it was answered Validation; the record has its first
\* kwhConsumed and no note.
C26_Witness ==
    /\ resp.op = "Consumption.update"
    /\ resp.outcome = "Validation"
    /\ resp.id \in DOMAIN consumptions
    /\ consumptions[resp.id].propertyId = resp.propertyId
    /\ consumptions[resp.id].kwhConsumed = 1
    /\ consumptions[resp.id].notes = NoName

(* ------------------------------------------------------------------ *)
(* SpecIntegrity: one user with two distributors, a property and an    *)
(* area.  Requests that create an area or a consumption record run     *)
(* step by step, one awaited repository call at a time, while the      *)
(* property is moved to the other distributor and distributors, the    *)
(* property and the area are deleted.                                  *)
(* ------------------------------------------------------------------ *)
IntegrityMaxUsers == 1
IntegrityMaxProperties == 1
IntegrityMaxAreas == 2

\* AreaService.create: await this.validatePropertyOwnership(propertyId, userId)
AreaCreate_validate(q, propertyId, userId) ==
    /\ inflight[q].pc = "idle"
    /\ LET out == validatePropertyOwnership(propertyId, userId) IN
       inflight' = [inflight EXCEPT ![q] =
            [pc |-> IF out = "ok" THEN "Area.create" ELSE "done",
             op |-> "Area.create", id |-> NULL, userId |-> userId,
             propertyId |-> propertyId, outcome |-> out]]
    /\ UNCHANGED <<db, resp, authVars>>

\* AreaService.create: return this.areaRepository.create(propertyId, parsed.data);
\* areas_propertyId_fkey refuses the insert when the property is gone.
AreaCreate_create(q) ==
    /\ inflight[q].pc = "Area.create"
    /\ IF inflight[q].propertyId \notin DOMAIN properties
       THEN /\ Finished(q, "InternalError")
            /\ UNCHANGED <<db, resp, authVars>>
       ELSE /\ nextId.area < IntegrityMaxAreas
            /\ LET id == nextId.area + 1 IN
               /\ areas' = Insert(areas, id,
                                  [propertyId |-> inflight[q].propertyId, name |-> "n1"])
               /\ nextId' = [nextId EXCEPT !.area = id]
            /\ Finished(q, "ok")
            /\ UNCHANGED <<users, distributors, properties, devices, consumptions, resp,
                           authVars>>

NextIntegrity ==
    \/ Deliver
    \/ nextId.user < IntegrityMaxUsers /\ createUser(TRUE, Signup(nextId.user + 1))
    \/ \E u \in UserIds, c \in Cnpjs : Distributor_create(u, TRUE, c, 20, Undefined, Undefined)
    \/ \E u \in UserIds, d \in DistributorIds :
            nextId.property < IntegrityMaxProperties /\ Property_create(u, TRUE, d, "n1")
    \/ \E u \in UserIds, p \in PropertyIds, d \in DistributorIds :
            Property_update(p, u, TRUE, d, NoName)
    \/ \E u \in UserIds, d \in DistributorIds : Distributor_delete(d, u)
    \/ \E u \in UserIds, p \in PropertyIds : Property_delete(p, u)
    \/ \E u \in UserIds, p \in PropertyIds, a \in AreaIds : Area_delete(a, p, u)
    \/ \E q \in RequestIds, u \in UserIds, p \in PropertyIds : AreaCreate_validate(q, p, u)
    \/ \E q \in RequestIds : AreaCreate_create(q)
    \/ \E q \in RequestIds, u \in UserIds, p \in PropertyIds :
            Create_start(q, "createForProperty", PropertyTarget(p), NULL, p, u, "DAILY", 1)
    \/ \E q \in RequestIds, u \in UserIds, p \in PropertyIds, a \in AreaIds :
            Create_start(q, "createForArea", AreaTarget(a), a, p, u, "DAILY", 1)
    \/ \E q \in RequestIds : Create_distributor(q)
    \/ \E q \in RequestIds : Create_area(q)
    \/ \E q \in RequestIds : Create_find(q)
    \/ \E q \in RequestIds : Create_insert(q)

SpecIntegrity == Init /\ [][NextIntegrity]_vars

\* Every stored row references a stored parent.
ReferencesResolve ==
    /\ \A a \in DOMAIN areas : areas[a].propertyId \in DOMAIN properties
    /\ \A d \in DOMAIN devices : devices[d].areaId \in DOMAIN areas
    /\ \A r \in DOMAIN consumptions :
            \/ consumptions[r].propertyId \in DOMAIN properties
            \/ consumptions[r].areaId \in DOMAIN areas
            \/ consumptions[r].deviceId \in DOMAIN devices
    /\ \A p \in DOMAIN properties : properties[p].distributorId \in DOMAIN distributors

\* Request q takes the 'linked distributor not found' branch of
\* validatePropertyAndGetKwhPrice in this step.
LinkedDistributorNotFound(q) ==
    /\ inflight[q].pc = "distributor"
    /\ inflight'[q].pc = "done"
    /\ inflight'[q].outcome = "NotFound"

\* C27. Referential integrity under interleaving: after every step of any
\* interleaving of requests every area references a stored property, every
\* device a stored area, every consumption record a stored property, area or
\* device and every property a stored distributor, and no request takes the
\* 'linked distributor not found' branch of validatePropertyAndGetKwhPrice.
C27_ReferentialIntegrity ==
    [][/\ ReferencesResolve'
       /\ \A q \in RequestIds : ~LinkedDistributorNotFound(q)]_vars


(* ------------------------------------------------------------------ *)
(* Freshness of the token issued by login.                             *)
(* ------------------------------------------------------------------ *)
\* The token strings of the stored auth_tokens rows.
StoredTokenStrings == {jwts[t] : t \in DOMAIN authTokens}

\* C28. Login always issues a fresh token: login with valid credentials
\* succeeds in every state, however many tokens the user holds and however
\* close in time the previous login was, and stores a new auth_tokens row
\* whose token string differs from every token already stored.
C28_FreshToken ==
    [][\A u \in UserIds, ch \in TokenChannel, s \in Seconds :
          (u \in users /\ login(u, TRUE, TRUE, ch, s))
          => /\ resp'.outcome = "ok"
             /\ resp'.id \in DOMAIN authTokens' \ DOMAIN authTokens
             /\ jwts'[resp'.id] \notin StoredTokenStrings
      ]_vars


(* ------------------------------------------------------------------ *)
(* The two writes of resetPassword, seen from the stored rows.         *)
(* ------------------------------------------------------------------ *)
\* The stored password of user u is one written by resetPassword.
PasswordReplaced(u) ==
    \E p \in NewPasswords : accounts[u].password = bcryptHash(p)

\* C29. Reset atomicity: resetPassword either both replaces the password of
\* the user and sets usedAt on the reset token, or does neither; in no
\* reachable state is the password replaced while the token is still unused,
\* or the token marked used while the password is unchanged.
C29_ResetAtomicity ==
    \A r \in DOMAIN passwordResets :
        passwordResets[r].userId \in DOMAIN accounts
        => (PasswordReplaced(passwordResets[r].userId)
            <=> passwordResets[r].usedAt # Undefined)

============================================================================
